---- MODULE Spec2Model ----
(***************************************************************************)
(* Document ingestion pipeline of student-site-refresh:                    *)
(*   src/src/lib/fileExtractor.ts  samplePageNumbers, extractFromPDF,      *)
(*                                 extractFileContent,                     *)
(*                                 extractAllFilesContent,                 *)
(*                                 extractFromPPTBinary, extractFromPPTX,  *)
(*                                 detectMathContent                       *)
(*   src/unnamed/part_019          detectFileType, validateFile            *)
(*   src/unnamed/part_004          the file-converter endpoint             *)
(*   src/src/lib/ocr-pool.ts       initOCRPool, getNextWorker              *)
(*   src/src/lib/pdf-processor.ts  processPdfStream                        *)
(* One group of variables per component; each specification drives one     *)
(* component and leaves the others in their initial state.                 *)
(***************************************************************************)
EXTENDS Integers, Sequences, FiniteSets, TLC

VARIABLES
    \* samplePageNumbers applied to one input
    spTotalPages, spPages, spPc,
    \* ocr-pool.ts module state and its callers
    workers, initialized, initPromise, rrIndex,
    created, resolvedCount, callerPc, callerKind, acquireLog,
    \* processPdfStream
    stNumPages, stPc, batchStart, stStage, stWorker, results, textPages,
    emitted, emitCursor, pauses,
    \* extractFromPDF and the Tesseract worker of fileExtractor.ts
    pdNumPages, pdWordsPerPage, pdPc, now, startTime, pagesToOCR, batchI,
    taskStage, taskRes, deadline, ocrResults, tesseractWorker, workerInitializing,
    creator, progressLog, pdResult,
    \* extractAllFilesContent
    files, fileIdx, fileDetails, callPc, started, pdfRun, overallLog,
    \* the file-converter endpoint: detectFileType, validateFile, handler
    upload, gatePc, detection, validation, response,
    \* extractFromPPTBinary
    pptStream, pptPc, pptOffset, pptTexts, pptHalt, decodeLog, pptResult,
    \* extractFromPPTX
    zipEntries, pptxPc, slideFiles, notesFiles, slideTexts, pptxResult,
    \* mathPatterns and detectMathContent
    lastIndex, mathLog

sampleVars == <<spTotalPages, spPages, spPc>>
poolCore == <<workers, initialized, initPromise, rrIndex, created, resolvedCount>>
callerVars == <<callerPc, callerKind, acquireLog>>
poolVars == <<poolCore, callerVars>>
streamVars == <<stNumPages, stPc, batchStart, stStage, stWorker, results, textPages,
                emitted, emitCursor, pauses>>
pdfDoc == <<pdNumPages, pdWordsPerPage>>
pdfCtl == <<pdPc, startTime, pagesToOCR, batchI, ocrResults, progressLog, pdResult>>
pdfTasks == <<taskStage, taskRes, deadline>>
pdfEngine == <<tesseractWorker, workerInitializing, creator>>
pdfVars == <<pdfDoc, pdfCtl, pdfTasks, pdfEngine, now>>
batchVars == <<files, fileIdx, fileDetails, callPc, started, pdfRun, overallLog>>
gateVars == <<upload, gatePc, detection, validation, response>>
pptVars == <<pptStream, pptPc, pptOffset, pptTexts, pptHalt, decodeLog, pptResult>>
pptxVars == <<zipEntries, pptxPc, slideFiles, notesFiles, slideTexts, pptxResult>>
mathVars == <<lastIndex, mathLog>>
fileVars == <<gateVars, pptVars, pptxVars, mathVars>>
vars == <<sampleVars, poolVars, streamVars, pdfVars, batchVars, fileVars>>

(***************************************************************************)
(* Bounds of the model                                                     *)
(***************************************************************************)
MaxTotalPages == 64
NumCallers == 5
MaxStreamPages == 7
MaxPdfPages == 9
MaxClock == 10500
TickMs == 3500
MaxFiles == 3
MaxDigitalPages == 64

(***************************************************************************)
(* Helpers                                                                 *)
(***************************************************************************)
Min(a, b) == IF a < b THEN a ELSE b
Max(a, b) == IF a > b THEN a ELSE b

Range(s) == {s[k] : k \in 1..Len(s)}

StrictlyAscending(s) == \A k \in 1..(Len(s) - 1) : s[k] < s[k + 1]

\* Set.prototype.add: a JS Set keeps insertion order and ignores a value it holds
SetAdd(s, x) == IF x \in Range(s) THEN s ELSE Append(s, x)

RECURSIVE AddRange(_, _, _)
AddRange(s, lo, hi) == IF lo > hi THEN s ELSE AddRange(SetAdd(s, lo), lo + 1, hi)

RECURSIVE InsertAsc(_, _)
InsertAsc(s, x) ==
    IF s = <<>> THEN <<x>>
    ELSE IF x < Head(s) THEN <<x>> \o s
    ELSE <<Head(s)>> \o InsertAsc(Tail(s), x)

RECURSIVE SortedFrom(_, _)
SortedFrom(acc, s) == IF s = <<>> THEN acc ELSE SortedFrom(InsertAsc(acc, Head(s)), Tail(s))

Unsorted(s) == s

\* Array.from(pages).sort((a, b) => a - b)
SortAsc(s) == SortedFrom(<<>>, s)

(***************************************************************************)
(* samplePageNumbers (fileExtractor.ts)                                    *)
(***************************************************************************)
OcrMaxPages == 8

SamplesEveryPageStrict(totalPages, maxPages) == totalPages < maxPages

\* if (totalPages <= maxPages)
SamplesEveryPage(totalPages, maxPages) == totalPages <= maxPages

\* for (let p = step; p <= totalPages && pages.size < maxPages; p += step) pages.add(p)
RECURSIVE FillLoop(_, _, _, _, _)
FillLoop(pages, p, step, totalPages, maxPages) ==
    IF p <= totalPages /\ Len(pages) < maxPages
    THEN FillLoop(SetAdd(pages, p), p + step, step, totalPages, maxPages)
    ELSE pages

samplePageNumbers(totalPages, maxPages) ==
    IF SamplesEveryPage(totalPages, maxPages)
    THEN [i \in 1..totalPages |-> i]
    ELSE LET first == AddRange(<<>>, 1, Min(3, totalPages))
             ends  == AddRange(first, Max(1, totalPages - 1), totalPages)
             step  == totalPages \div (maxPages - Len(ends) + 1)
         IN  SortAsc(FillLoop(ends, step, step, totalPages, maxPages))

SampleInit ==
    /\ spTotalPages \in 1..MaxTotalPages
    /\ spPages = <<>>
    /\ spPc = "call"

SampleIdle ==
    /\ spTotalPages = 1
    /\ spPages = <<>>
    /\ spPc = "idle"

SampleCall ==
    /\ spPc = "call"
    /\ spPages' = samplePageNumbers(spTotalPages, OcrMaxPages)
    /\ spPc' = "returned"
    /\ UNCHANGED <<spTotalPages, poolVars, streamVars, pdfVars, batchVars, fileVars>>

(***************************************************************************)
(* ocr-pool.ts: module state, initOCRPool, getNextWorker                   *)
(*   initPromise: "null" | "pending" | "rejected" (a rejected promise is   *)
(*   never cleared: only the success path assigns null)                    *)
(*   created: number of createWorker calls so far; the engine made by the  *)
(*   n-th call is worker n                                                 *)
(***************************************************************************)
WORKER_COUNT == 3

Callers == 1..NumCallers

PoolCoreInit ==
    /\ workers = <<>>
    /\ initialized = FALSE
    /\ initPromise = "null"
    /\ rrIndex = 0
    /\ created = 0
    /\ resolvedCount = 0

StartsInitIgnoringPromise(init, promise) == ~init

\* initOCRPool falls through both early returns and creates the pool
StartsInit(init, promise) == ~init /\ promise = "null"

\* if (initPromise) return initPromise
JoinsInit(init, promise) == ~init /\ promise # "null"

\* initPromise = (async () => { workers = await Promise.all(Array.from({length: WORKER_COUNT}, () => createWorker(...))) ...
\* the three createWorker calls are made synchronously, before the first await
BeginInit ==
    /\ initPromise' = "pending"
    /\ created' = created + WORKER_COUNT
    /\ resolvedCount' = 0
    /\ UNCHANGED <<workers, initialized, rrIndex>>

\* one createWorker promise resolves
WorkerCreated ==
    /\ initPromise = "pending"
    /\ resolvedCount < WORKER_COUNT
    /\ resolvedCount' = resolvedCount + 1
    /\ UNCHANGED <<workers, initialized, initPromise, rrIndex, created>>

\* one createWorker promise rejects: Promise.all rejects, the async body throws
\* before "initialized = true; initPromise = null"
WorkerCreateFails ==
    /\ initPromise = "pending"
    /\ resolvedCount < WORKER_COUNT
    /\ initPromise' = "rejected"
    /\ UNCHANGED <<workers, initialized, rrIndex, created, resolvedCount>>

\* Promise.all resolved: workers = [...]; initialized = true; initPromise = null
InitCompletes ==
    /\ initPromise = "pending"
    /\ resolvedCount = WORKER_COUNT
    /\ workers' = [k \in 1..WORKER_COUNT |-> created - WORKER_COUNT + k]
    /\ initialized' = TRUE
    /\ initPromise' = "null"
    /\ UNCHANGED <<rrIndex, created, resolvedCount>>

WorkerIndexFirst(i, n) == 0

WorkerIndexOffByOne(i, n) == (i + 1) % n

\* rrIndex % workers.length
WorkerIndex(i, n) == i % n

\* const worker = workers[rrIndex % workers.length]
NextWorker == workers[WorkerIndex(rrIndex, Len(workers)) + 1]

(* ---- callers of the pool (Index.tsx pre-warm, OCR requests) ---- *)

CallersInit ==
    /\ callerPc = [c \in Callers |-> "idle"]
    /\ callerKind = [c \in Callers |-> "none"]
    /\ acquireLog = <<>>

CallersIdle ==
    /\ callerPc = [c \in Callers |-> "returned"]
    /\ callerKind = [c \in Callers |-> "none"]
    /\ acquireLog = <<>>

\* initOCRPool(): if (initialized) return
InitOCRPoolReady(c) ==
    /\ callerPc[c] = "idle"
    /\ initialized
    /\ callerKind' = [callerKind EXCEPT ![c] = "init"]
    /\ callerPc' = [callerPc EXCEPT ![c] = "returned"]
    /\ UNCHANGED <<poolCore, acquireLog>>

\* initOCRPool(): returns the in-flight (or rejected) initPromise
InitOCRPoolJoin(c) ==
    /\ callerPc[c] = "idle"
    /\ JoinsInit(initialized, initPromise)
    /\ callerKind' = [callerKind EXCEPT ![c] = "init"]
    /\ callerPc' = [callerPc EXCEPT ![c] = "awaiting"]
    /\ UNCHANGED <<poolCore, acquireLog>>

\* initOCRPool(): first call, starts the initialisation
InitOCRPoolStart(c) ==
    /\ callerPc[c] = "idle"
    /\ StartsInit(initialized, initPromise)
    /\ BeginInit
    /\ callerKind' = [callerKind EXCEPT ![c] = "init"]
    /\ callerPc' = [callerPc EXCEPT ![c] = "awaiting"]
    /\ UNCHANGED acquireLog

\* worker = workers[rrIndex % workers.length]; rrIndex++; return worker
\* (no await between the read and the increment)
TakeWorker(c) ==
    /\ acquireLog' = Append(acquireLog, [caller |-> c, cursor |-> rrIndex, worker |-> NextWorker,
                                         waited |-> callerPc[c] = "awaiting"])
    /\ rrIndex' = rrIndex + 1
    /\ callerPc' = [callerPc EXCEPT ![c] = "returned"]
    /\ UNCHANGED <<workers, initialized, initPromise, created, resolvedCount>>

\* getNextWorker() with the pool ready: no await
GetNextWorkerReady(c) ==
    /\ callerPc[c] = "idle"
    /\ initialized
    /\ callerKind' = [callerKind EXCEPT ![c] = "acquire"]
    /\ TakeWorker(c)

\* getNextWorker(): await initOCRPool(), which returns the existing promise
GetNextWorkerJoin(c) ==
    /\ callerPc[c] = "idle"
    /\ JoinsInit(initialized, initPromise)
    /\ callerKind' = [callerKind EXCEPT ![c] = "acquire"]
    /\ callerPc' = [callerPc EXCEPT ![c] = "awaiting"]
    /\ UNCHANGED <<poolCore, acquireLog>>

\* getNextWorker(): await initOCRPool(), which starts the initialisation
GetNextWorkerStart(c) ==
    /\ callerPc[c] = "idle"
    /\ StartsInit(initialized, initPromise)
    /\ BeginInit
    /\ callerKind' = [callerKind EXCEPT ![c] = "acquire"]
    /\ callerPc' = [callerPc EXCEPT ![c] = "awaiting"]
    /\ UNCHANGED acquireLog

\* the awaited initPromise resolved: initOCRPool()'s caller continues
InitOCRPoolResumes(c) ==
    /\ callerPc[c] = "awaiting"
    /\ callerKind[c] = "init"
    /\ initialized
    /\ callerPc' = [callerPc EXCEPT ![c] = "returned"]
    /\ UNCHANGED <<poolCore, callerKind, acquireLog>>

\* the awaited initPromise resolved: getNextWorker continues after its await
GetNextWorkerResumes(c) ==
    /\ callerPc[c] = "awaiting"
    /\ callerKind[c] = "acquire"
    /\ initialized
    /\ TakeWorker(c)
    /\ UNCHANGED callerKind

\* the awaited initPromise rejected: the call rejects
CallRejects(c) ==
    /\ callerPc[c] = "awaiting"
    /\ initPromise = "rejected"
    /\ callerPc' = [callerPc EXCEPT ![c] = "rejected"]
    /\ UNCHANGED <<poolCore, callerKind, acquireLog>>

PoolInit == PoolCoreInit /\ CallersInit

PoolFrame == UNCHANGED <<sampleVars, streamVars, pdfVars, batchVars, fileVars>>

PoolNext ==
    \/ WorkerCreated /\ UNCHANGED callerVars /\ PoolFrame
    \/ WorkerCreateFails /\ UNCHANGED callerVars /\ PoolFrame
    \/ InitCompletes /\ UNCHANGED callerVars /\ PoolFrame
    \/ \E c \in Callers : InitOCRPoolReady(c) /\ PoolFrame
    \/ \E c \in Callers : InitOCRPoolJoin(c) /\ PoolFrame
    \/ \E c \in Callers : InitOCRPoolStart(c) /\ PoolFrame
    \/ \E c \in Callers : GetNextWorkerReady(c) /\ PoolFrame
    \/ \E c \in Callers : GetNextWorkerJoin(c) /\ PoolFrame
    \/ \E c \in Callers : GetNextWorkerStart(c) /\ PoolFrame
    \/ \E c \in Callers : InitOCRPoolResumes(c) /\ PoolFrame
    \/ \E c \in Callers : GetNextWorkerResumes(c) /\ PoolFrame
    \/ \E c \in Callers : CallRejects(c) /\ PoolFrame

(***************************************************************************)
(* pdf-processor.ts: processPdfStream                                      *)
(*   stStage[p]: where the async callback of page p of the current batch   *)
(*   is suspended; results[p]: the text of its PageResult                  *)
(*   textPages: the pages whose PageResult text is not blank (history)     *)
(***************************************************************************)
BATCH_SIZE == 3
PAUSE_EVERY == 20

\* texts a page can end with: native text of 20+ characters, recognised text,
\* whitespace-only recognised text, and '' (nothing recognised, or the catch)
NativeText == "native text of twenty chars"
OcrTexts == {"recognised text", " ", ""}

\* String.prototype.trim
Trim(t) == IF t = " " THEN "" ELSE t

StreamPages == 1..stNumPages

BatchEndWide == Min(batchStart + BATCH_SIZE, stNumPages)

\* Math.min(batchStart + BATCH_SIZE - 1, numPages)
BatchEnd == Min(batchStart + BATCH_SIZE - 1, stNumPages)

BatchPages == batchStart..BatchEnd

\* if (batchStart > 1 && (batchStart - 1) % 20 === 0)
PauseDue(start) == start > 1 /\ (start - 1) % PAUSE_EVERY = 0

YieldsUntrimmed(text) == text # ""

\* if (result.text.trim()) yield result
Yields(text) == Trim(text) # ""

StreamInit ==
    /\ stNumPages \in 1..MaxStreamPages
    /\ stPc = "open"
    /\ batchStart = 1
    /\ stStage = [p \in 1..stNumPages |-> "idle"]
    /\ stWorker = [p \in 1..stNumPages |-> 0]
    /\ results = [p \in 1..stNumPages |-> ""]
    /\ textPages = {}
    /\ emitted = <<>>
    /\ emitCursor = 1
    /\ pauses = 0

StreamIdle ==
    /\ stNumPages = 1
    /\ stPc = "idle"
    /\ batchStart = 1
    /\ stStage = [p \in 1..stNumPages |-> "idle"]
    /\ stWorker = [p \in 1..stNumPages |-> 0]
    /\ results = [p \in 1..stNumPages |-> ""]
    /\ textPages = {}
    /\ emitted = <<>>
    /\ emitCursor = 1
    /\ pauses = 0

\* file.arrayBuffer() and getDocument(...).promise resolved
OpenDocument ==
    /\ stPc = "open"
    /\ stPc' = "loop"
    /\ UNCHANGED <<stNumPages, batchStart, stStage, stWorker, results, textPages,
                   emitted, emitCursor, pauses>>

\* loop head with batchStart <= numPages: the pause if due, then the callbacks
\* of the batch all start and suspend at pdf.getPage
BatchBegins ==
    /\ stPc = "loop"
    /\ batchStart <= stNumPages
    /\ pauses' = IF PauseDue(batchStart) THEN pauses + 1 ELSE pauses
    /\ stStage' = [p \in StreamPages |-> IF p \in BatchPages THEN "native" ELSE stStage[p]]
    /\ stPc' = "batch"
    /\ UNCHANGED <<stNumPages, batchStart, stWorker, results, textPages, emitted, emitCursor>>

\* loop head with batchStart > numPages: the generator returns
StreamEnds ==
    /\ stPc = "loop"
    /\ batchStart > stNumPages
    /\ stPc' = "done"
    /\ UNCHANGED <<stNumPages, batchStart, stStage, stWorker, results, textPages,
                   emitted, emitCursor, pauses>>

\* the callback of page p returns { page, totalPages, text }
PageReturns(p, text) ==
    /\ stStage' = [stStage EXCEPT ![p] = "done"]
    /\ results' = [results EXCEPT ![p] = text]
    /\ textPages' = IF Trim(text) # "" THEN textPages \cup {p} ELSE textPages

\* nativeText.length >= NATIVE_TEXT_THRESHOLD: the fast path
NativeTextFound(p) ==
    /\ stPc = "batch"
    /\ stStage[p] = "native"
    /\ PageReturns(p, NativeText)
    /\ UNCHANGED <<stNumPages, stPc, batchStart, stWorker, emitted, emitCursor, pauses>>

\* fewer than 20 native characters: the slow path starts rendering
NativeTextShort(p) ==
    /\ stPc = "batch"
    /\ stStage[p] = "native"
    /\ stStage' = [stStage EXCEPT ![p] = "render"]
    /\ UNCHANGED <<stNumPages, stPc, batchStart, stWorker, results, textPages,
                   emitted, emitCursor, pauses>>

\* pdf.getPage or page.getTextContent rejects (outside the try): Promise.all
\* rejects and the generator throws
NativeReadFails(p) ==
    /\ stPc = "batch"
    /\ stStage[p] = "native"
    /\ stPc' = "failed"
    /\ UNCHANGED <<stNumPages, batchStart, stStage, stWorker, results, textPages,
                   emitted, emitCursor, pauses>>

\* renderPageToJpeg throws: catch returns text ''
RenderFails(p) ==
    /\ stPc = "batch"
    /\ stStage[p] = "render"
    /\ PageReturns(p, "")
    /\ UNCHANGED <<stNumPages, stPc, batchStart, stWorker, emitted, emitCursor, pauses>>

\* page p takes workers[rrIndex % workers.length] and calls worker.recognize
PageTakesWorker(p) ==
    /\ stWorker' = [stWorker EXCEPT ![p] = NextWorker]
    /\ rrIndex' = rrIndex + 1
    /\ stStage' = [stStage EXCEPT ![p] = "recognize"]
    /\ UNCHANGED <<workers, initialized, initPromise, created, resolvedCount>>

\* render done, getNextWorker() with the pool ready
RenderedPoolReady(p) ==
    /\ stPc = "batch"
    /\ stStage[p] = "render"
    /\ initialized
    /\ PageTakesWorker(p)
    /\ UNCHANGED <<stNumPages, stPc, batchStart, results, textPages, emitted, emitCursor, pauses>>

\* render done, getNextWorker() awaits the initialisation already started
RenderedPoolJoin(p) ==
    /\ stPc = "batch"
    /\ stStage[p] = "render"
    /\ JoinsInit(initialized, initPromise)
    /\ stStage' = [stStage EXCEPT ![p] = "awaitPool"]
    /\ UNCHANGED <<stNumPages, stPc, batchStart, stWorker, results, textPages,
                   emitted, emitCursor, pauses, poolCore>>

\* render done, getNextWorker() starts the initialisation and awaits it
RenderedPoolStart(p) ==
    /\ stPc = "batch"
    /\ stStage[p] = "render"
    /\ StartsInit(initialized, initPromise)
    /\ BeginInit
    /\ stStage' = [stStage EXCEPT ![p] = "awaitPool"]
    /\ UNCHANGED <<stNumPages, stPc, batchStart, stWorker, results, textPages,
                   emitted, emitCursor, pauses>>

\* the awaited initialisation resolved: getNextWorker continues
PagePoolResumes(p) ==
    /\ stPc = "batch"
    /\ stStage[p] = "awaitPool"
    /\ initialized
    /\ PageTakesWorker(p)
    /\ UNCHANGED <<stNumPages, stPc, batchStart, results, textPages, emitted, emitCursor, pauses>>

\* the awaited initialisation rejected: getNextWorker throws inside the try,
\* the catch returns text ''
PagePoolRejected(p) ==
    /\ stPc = "batch"
    /\ stStage[p] = "awaitPool"
    /\ initPromise = "rejected"
    /\ PageReturns(p, "")
    /\ UNCHANGED <<stNumPages, stPc, batchStart, stWorker, emitted, emitCursor, pauses, poolCore>>

\* worker.recognize resolved: text = result.data.text || ''
Recognized(p, text) ==
    /\ stPc = "batch"
    /\ stStage[p] = "recognize"
    /\ PageReturns(p, text)
    /\ UNCHANGED <<stNumPages, stPc, batchStart, stWorker, emitted, emitCursor, pauses>>

\* worker.recognize rejected: catch returns text ''
RecognizeFails(p) ==
    /\ stPc = "batch"
    /\ stStage[p] = "recognize"
    /\ PageReturns(p, "")
    /\ UNCHANGED <<stNumPages, stPc, batchStart, stWorker, emitted, emitCursor, pauses>>

\* Promise.all of the batch resolved: the for..of over results starts
BatchResolves ==
    /\ stPc = "batch"
    /\ \A p \in BatchPages : stStage[p] = "done"
    /\ stPc' = "yield"
    /\ emitCursor' = batchStart
    /\ UNCHANGED <<stNumPages, batchStart, stStage, stWorker, results, textPages, emitted, pauses>>

\* for (const result of results) if (result.text.trim()) yield result
EmitPage ==
    /\ stPc = "yield"
    /\ emitCursor <= BatchEnd
    /\ Yields(results[emitCursor])
    /\ emitted' = Append(emitted, emitCursor)
    /\ emitCursor' = emitCursor + 1
    /\ UNCHANGED <<stNumPages, stPc, batchStart, stStage, stWorker, results, textPages, pauses>>

SkipPage ==
    /\ stPc = "yield"
    /\ emitCursor <= BatchEnd
    /\ ~Yields(results[emitCursor])
    /\ emitCursor' = emitCursor + 1
    /\ UNCHANGED <<stNumPages, stPc, batchStart, stStage, stWorker, results, textPages,
                   emitted, pauses>>

\* batchStart += BATCH_SIZE; the results array and the callbacks of the batch
\* go out of scope
NextBatch ==
    /\ stPc = "yield"
    /\ emitCursor > BatchEnd
    /\ batchStart' = batchStart + BATCH_SIZE
    /\ stPc' = "loop"
    /\ stStage' = [p \in StreamPages |-> "idle"]
    /\ stWorker' = [p \in StreamPages |-> 0]
    /\ results' = [p \in StreamPages |-> ""]
    /\ UNCHANGED <<stNumPages, textPages, emitted, emitCursor, pauses>>

\* Index.tsx: setTimeout(() => initOCRPool().catch(() => {}), 2000)
PreWarm ==
    /\ StartsInit(initialized, initPromise)
    /\ BeginInit

StreamFrame == UNCHANGED <<callerVars, sampleVars, pdfVars, batchVars, fileVars>>

StreamNext ==
    \/ OpenDocument /\ UNCHANGED poolCore /\ StreamFrame
    \/ BatchBegins /\ UNCHANGED poolCore /\ StreamFrame
    \/ StreamEnds /\ UNCHANGED poolCore /\ StreamFrame
    \/ BatchResolves /\ UNCHANGED poolCore /\ StreamFrame
    \/ EmitPage /\ UNCHANGED poolCore /\ StreamFrame
    \/ SkipPage /\ UNCHANGED poolCore /\ StreamFrame
    \/ NextBatch /\ UNCHANGED poolCore /\ StreamFrame
    \/ PreWarm /\ UNCHANGED streamVars /\ StreamFrame
    \/ WorkerCreated /\ UNCHANGED streamVars /\ StreamFrame
    \/ WorkerCreateFails /\ UNCHANGED streamVars /\ StreamFrame
    \/ InitCompletes /\ UNCHANGED streamVars /\ StreamFrame
    \/ \E p \in StreamPages : NativeTextFound(p) /\ UNCHANGED poolCore /\ StreamFrame
    \/ \E p \in StreamPages : NativeTextShort(p) /\ UNCHANGED poolCore /\ StreamFrame
    \/ \E p \in StreamPages : NativeReadFails(p) /\ UNCHANGED poolCore /\ StreamFrame
    \/ \E p \in StreamPages : RenderFails(p) /\ UNCHANGED poolCore /\ StreamFrame
    \/ \E p \in StreamPages : RenderedPoolReady(p) /\ StreamFrame
    \/ \E p \in StreamPages : RenderedPoolJoin(p) /\ StreamFrame
    \/ \E p \in StreamPages : RenderedPoolStart(p) /\ StreamFrame
    \/ \E p \in StreamPages : PagePoolResumes(p) /\ StreamFrame
    \/ \E p \in StreamPages : PagePoolRejected(p) /\ StreamFrame
    \/ \E p \in StreamPages, text \in OcrTexts : Recognized(p, text) /\ UNCHANGED poolCore /\ StreamFrame
    \/ \E p \in StreamPages : RecognizeFails(p) /\ UNCHANGED poolCore /\ StreamFrame

\* processPdfStream over a digital document of up to MaxDigitalPages pages:
\* every page has 20 or more native characters and takes the fast path
DigitalInit ==
    /\ stNumPages \in 1..MaxDigitalPages
    /\ stPc = "open"
    /\ batchStart = 1
    /\ stStage = [p \in 1..stNumPages |-> "idle"]
    /\ stWorker = [p \in 1..stNumPages |-> 0]
    /\ results = [p \in 1..stNumPages |-> ""]
    /\ textPages = {}
    /\ emitted = <<>>
    /\ emitCursor = 1
    /\ pauses = 0

DigitalNext ==
    \/ OpenDocument /\ UNCHANGED poolCore /\ StreamFrame
    \/ BatchBegins /\ UNCHANGED poolCore /\ StreamFrame
    \/ StreamEnds /\ UNCHANGED poolCore /\ StreamFrame
    \/ BatchResolves /\ UNCHANGED poolCore /\ StreamFrame
    \/ EmitPage /\ UNCHANGED poolCore /\ StreamFrame
    \/ NextBatch /\ UNCHANGED poolCore /\ StreamFrame
    \/ \E p \in StreamPages : NativeTextFound(p) /\ UNCHANGED poolCore /\ StreamFrame

(***************************************************************************)
(* fileExtractor.ts: extractFromPDF, performOCR, getTesseractWorker        *)
(*   The native text layer is kept as words per page; the text returned is *)
(*   either that layer or the [Page N] blocks plus the sampling note.      *)
(*   taskStage[j]: where the batch callback for pagesToOCR[j] is: "idle",  *)
(*   "render" (getPage, pdfPageToImage), "ocr" (awaiting the timed         *)
(*   performOCR call: engine acquisition, then recognize), "over"          *)
(*   taskRes[j]: what the callback returned ("unset" while pending,        *)
(*   "null", or the recognised text)                                       *)
(*   creator: the task whose performOCR called createWorker (0: none)      *)
(*   now: the clock; only differences to startTime are read, so it starts  *)
(*   at 0 and is advanced once the OCR phase has begun                     *)
(***************************************************************************)
NATIVE_WORD_THRESHOLD == 50
OCR_BATCH_SIZE == 4
OCR_BUDGET_MS == 7000
OCR_TIMEOUT_MS == 4000

WordsPerPageChoices == {0, 25}

\* countWords(fullText.trim()): the words of all pages
WordCount == pdNumPages * pdWordsPerPage

NativeSufficesStrict(wordCount) == wordCount > NATIVE_WORD_THRESHOLD

\* if (wordCount >= 50) return trimmedText
NativeSuffices(wordCount) == wordCount >= NATIVE_WORD_THRESHOLD

NoBudget(elapsed) == TRUE

\* the negation of: if (Date.now() - startTime > 7000) break
WithinBudget(elapsed) == ~(elapsed > OCR_BUDGET_MS)

NoteAlways(sampleLen, numPages) == sampleLen <= numPages

\* pagesToOCR.length < pdf.numPages
Sampled(sampleLen, numPages) == sampleLen < numPages

PageResultUntrimmed(text) == text

\* return text.trim() ? { pageNum, text } : null
PageResult(text) == IF Trim(text) # "" THEN text ELSE "null"

Tasks == 1..Len(pagesToOCR)

\* pagesToOCR.slice(i, i + batchSize), as indexes into pagesToOCR
BatchTasks == {j \in Tasks : batchI < j /\ j <= batchI + OCR_BATCH_SIZE}

RECURSIVE PagesWithText(_, _)
\* results.forEach(r => { if (r) ocrResults.push(r) }) over tasks from..to
PagesWithText(from, to) ==
    IF from > to THEN <<>>
    ELSE (IF taskRes[from] # "null" THEN <<pagesToOCR[from]>> ELSE <<>>)
         \o PagesWithText(from + 1, to)

NativeResult == [kind |-> "native", blocks |-> <<>>, note |-> <<>>]

\* if (ocrResults.length === 0) return trimmedText; sort; [Page N] blocks; note
OcrResult(res) ==
    IF Len(res) = 0 THEN NativeResult
    ELSE [kind |-> "ocr",
          blocks |-> SortAsc(res),
          note |-> IF Sampled(Len(pagesToOCR), pdNumPages)
                   THEN <<pdNumPages, Len(pagesToOCR)>> ELSE <<>>]

PdfInit ==
    /\ pdNumPages \in 1..MaxPdfPages
    /\ pdWordsPerPage \in WordsPerPageChoices
    /\ pdPc = "native"
    /\ now = 0
    /\ startTime = 0
    /\ pagesToOCR = <<>>
    /\ batchI = 0
    /\ taskStage = <<>>
    /\ taskRes = <<>>
    /\ deadline = <<>>
    /\ ocrResults = <<>>
    /\ tesseractWorker = FALSE
    /\ workerInitializing = FALSE
    /\ creator = 0
    /\ progressLog = <<>>
    /\ pdResult = [kind |-> "none", blocks |-> <<>>, note |-> <<>>]

PdfIdle ==
    /\ pdNumPages = 1
    /\ pdWordsPerPage = 0
    /\ pdPc = "idle"
    /\ now = 0
    /\ startTime = 0
    /\ pagesToOCR = <<>>
    /\ batchI = 0
    /\ taskStage = <<>>
    /\ taskRes = <<>>
    /\ deadline = <<>>
    /\ ocrResults = <<>>
    /\ tesseractWorker = FALSE
    /\ workerInitializing = FALSE
    /\ creator = 0
    /\ progressLog = <<>>
    /\ pdResult = [kind |-> "none", blocks |-> <<>>, note |-> <<>>]

\* setTimeout / Date.now(): time passes
Tick ==
    /\ pdPc \in {"check", "batch"}
    /\ now < MaxClock
    /\ now' = now + TickMs
    /\ UNCHANGED <<pdfDoc, pdfCtl, pdfTasks, pdfEngine>>

\* getDocument or a native page read rejects: extractFromPDF rejects
PdfLoadFails ==
    /\ pdPc = "native"
    /\ pdPc' = "failed"
    /\ UNCHANGED <<startTime, pagesToOCR, batchI, ocrResults, progressLog, pdResult,
                   pdfDoc, pdfTasks, pdfEngine, now>>

\* Step 1 with wordCount >= 50: return trimmedText
NativeTextSuffices ==
    /\ pdPc = "native"
    /\ NativeSuffices(WordCount)
    /\ pdResult' = NativeResult
    /\ pdPc' = "done"
    /\ UNCHANGED <<startTime, pagesToOCR, batchI, ocrResults, progressLog,
                   pdfDoc, pdfTasks, pdfEngine, now>>

\* Step 2 begins: onProgress(0, ...), pagesToOCR = samplePageNumbers(numPages, 8),
\* startTime = Date.now()
ScannedDetected ==
    /\ pdPc = "native"
    /\ ~NativeSuffices(WordCount)
    /\ progressLog' = Append(progressLog, <<0, 1>>)
    /\ pagesToOCR' = samplePageNumbers(pdNumPages, OcrMaxPages)
    /\ taskStage' = [j \in 1..Len(pagesToOCR') |-> "idle"]
    /\ taskRes' = [j \in 1..Len(pagesToOCR') |-> "unset"]
    /\ deadline' = [j \in 1..Len(pagesToOCR') |-> 0]
    /\ startTime' = now
    /\ batchI' = 0
    /\ pdPc' = "check"
    /\ UNCHANGED <<ocrResults, pdResult, pdfDoc, pdfEngine, now>>

\* loop head, i < pagesToOCR.length, budget not exceeded: the callbacks of the
\* batch start and suspend at pdf.getPage
PdfBatchStarts ==
    /\ pdPc = "check"
    /\ batchI < Len(pagesToOCR)
    /\ WithinBudget(now - startTime)
    /\ taskStage' = [j \in Tasks |-> IF j \in BatchTasks THEN "render" ELSE taskStage[j]]
    /\ pdPc' = "batch"
    /\ UNCHANGED <<startTime, pagesToOCR, batchI, ocrResults, progressLog, pdResult,
                   taskRes, deadline, pdfDoc, pdfEngine, now>>

\* after the loop: onProgress(100, 'Done') and the return value
ReturnOcr ==
    /\ progressLog' = Append(progressLog, <<100, 1>>)
    /\ pdResult' = OcrResult(ocrResults)
    /\ pdPc' = "done"
    /\ UNCHANGED <<startTime, pagesToOCR, batchI, ocrResults, pdfDoc, pdfTasks, pdfEngine, now>>

\* loop head with the budget exceeded: break
BudgetExceeded ==
    /\ pdPc = "check"
    /\ batchI < Len(pagesToOCR)
    /\ ~WithinBudget(now - startTime)
    /\ ReturnOcr

\* loop head with i >= pagesToOCR.length
PdfLoopEnds ==
    /\ pdPc = "check"
    /\ batchI >= Len(pagesToOCR)
    /\ ReturnOcr

\* the callback of task j returns r
Settle(j, r) ==
    /\ taskRes' = [taskRes EXCEPT ![j] = r]
    /\ taskStage' = [taskStage EXCEPT ![j] = "over"]
    /\ deadline' = [deadline EXCEPT ![j] = 0]

\* performOCR(imageDataUrl) is called under withTimeout(..., 4000, '')
CallPerformOCR(j) ==
    /\ deadline' = [deadline EXCEPT ![j] = now + OCR_TIMEOUT_MS]
    /\ taskStage' = [taskStage EXCEPT ![j] = "ocr"]

\* page rendered; getTesseractWorker: if (tesseractWorker) return it
RenderedWorkerReady(j) ==
    /\ taskStage[j] = "render"
    /\ tesseractWorker
    /\ CallPerformOCR(j)
    /\ UNCHANGED <<taskRes, pdfDoc, pdfCtl, pdfEngine, now>>

\* page rendered; getTesseractWorker: workerInitializing, so poll every 100 ms
RenderedWorkerBusy(j) ==
    /\ taskStage[j] = "render"
    /\ ~tesseractWorker
    /\ workerInitializing
    /\ CallPerformOCR(j)
    /\ UNCHANGED <<taskRes, pdfDoc, pdfCtl, pdfEngine, now>>

\* page rendered; getTesseractWorker: workerInitializing = true; createWorker(...)
RenderedWorkerMissing(j) ==
    /\ taskStage[j] = "render"
    /\ ~tesseractWorker
    /\ ~workerInitializing
    /\ CallPerformOCR(j)
    /\ workerInitializing' = TRUE
    /\ creator' = j
    /\ UNCHANGED <<taskRes, tesseractWorker, pdfDoc, pdfCtl, now>>

\* pdf.getPage or pdfPageToImage throws: catch returns null
PdfRenderFails(j) ==
    /\ taskStage[j] = "render"
    /\ Settle(j, "null")
    /\ UNCHANGED <<pdfDoc, pdfCtl, pdfEngine, now>>

\* createWorker resolved: tesseractWorker = worker; finally workerInitializing = false
EngineCreated ==
    /\ workerInitializing
    /\ tesseractWorker' = TRUE
    /\ workerInitializing' = FALSE
    /\ creator' = 0
    /\ UNCHANGED <<pdfDoc, pdfCtl, pdfTasks, now>>

\* createWorker rejected: finally workerInitializing = false; the performOCR
\* that called it rejects, and its callback, if still waiting, returns null
EngineCreateFails ==
    /\ workerInitializing
    /\ workerInitializing' = FALSE
    /\ creator' = 0
    /\ IF taskStage[creator] = "ocr"
       THEN Settle(creator, "null")
       ELSE UNCHANGED <<taskRes, taskStage, deadline>>
    /\ UNCHANGED <<tesseractWorker, pdfDoc, pdfCtl, now>>

\* a polling call sees workerInitializing false and returns tesseractWorker!,
\* which is null: worker.recognize throws
PollFindsNull(j) ==
    /\ taskStage[j] = "ocr"
    /\ ~workerInitializing
    /\ ~tesseractWorker
    /\ Settle(j, "null")
    /\ UNCHANGED <<pdfDoc, pdfCtl, pdfEngine, now>>

\* worker.recognize resolved: result?.data?.text || ''
OcrRecognized(j, text) ==
    /\ taskStage[j] = "ocr"
    /\ tesseractWorker
    /\ Settle(j, PageResult(text))
    /\ UNCHANGED <<pdfDoc, pdfCtl, pdfEngine, now>>

\* worker.recognize rejected
OcrFails(j) ==
    /\ taskStage[j] = "ocr"
    /\ tesseractWorker
    /\ Settle(j, "null")
    /\ UNCHANGED <<pdfDoc, pdfCtl, pdfEngine, now>>

\* the 4000 ms timer of withTimeout fires first: the race resolves with '' and
\* the callback returns; performOCR itself is not cancelled
OcrTimesOut(j) ==
    /\ taskStage[j] = "ocr"
    /\ now >= deadline[j]
    /\ Settle(j, PageResult(""))
    /\ UNCHANGED <<pdfDoc, pdfCtl, pdfEngine, now>>

\* Promise.all(batchPromises) resolved: push the non-null results, report
\* progress, i += batchSize
PdfBatchResolves ==
    /\ pdPc = "batch"
    /\ \A j \in BatchTasks : taskRes[j] # "unset"
    /\ ocrResults' = ocrResults \o PagesWithText(batchI + 1, Min(batchI + OCR_BATCH_SIZE, Len(pagesToOCR)))
    /\ progressLog' = Append(progressLog,
                             <<Min(batchI + OCR_BATCH_SIZE, Len(pagesToOCR)) * 100, Len(pagesToOCR)>>)
    /\ batchI' = batchI + OCR_BATCH_SIZE
    /\ pdPc' = "check"
    /\ UNCHANGED <<startTime, pagesToOCR, pdResult, pdfDoc, pdfTasks, pdfEngine, now>>

PdfFrame == UNCHANGED <<sampleVars, poolVars, streamVars, batchVars, fileVars>>

PdfNext ==
    \/ Tick /\ PdfFrame
    \/ PdfLoadFails /\ PdfFrame
    \/ NativeTextSuffices /\ PdfFrame
    \/ ScannedDetected /\ PdfFrame
    \/ PdfBatchStarts /\ PdfFrame
    \/ BudgetExceeded /\ PdfFrame
    \/ PdfLoopEnds /\ PdfFrame
    \/ PdfBatchResolves /\ PdfFrame
    \/ EngineCreated /\ PdfFrame
    \/ EngineCreateFails /\ PdfFrame
    \/ \E j \in Tasks : RenderedWorkerReady(j) /\ PdfFrame
    \/ \E j \in Tasks : RenderedWorkerBusy(j) /\ PdfFrame
    \/ \E j \in Tasks : RenderedWorkerMissing(j) /\ PdfFrame
    \/ \E j \in Tasks : PdfRenderFails(j) /\ PdfFrame
    \/ \E j \in Tasks : PollFindsNull(j) /\ PdfFrame
    \/ \E j \in Tasks, text \in OcrTexts : OcrRecognized(j, text) /\ PdfFrame
    \/ \E j \in Tasks : OcrFails(j) /\ PdfFrame
    \/ \E j \in Tasks : OcrTimesOut(j) /\ PdfFrame

(***************************************************************************)
(* JavaScript Numbers: IEEE 754 binary64, non-negative values only.        *)
(*   A Number is [m |-> bits, e |-> exponent], value = m * 2^e, where m is *)
(*   a sequence of 0/1 with the most significant bit first; a Number in    *)
(*   normal form has 53 bits with a leading 1, zero is [m |-> <<>>, e |-> 0]*)
(*   Every operation is the exact result rounded to nearest, ties to even. *)
(***************************************************************************)
MantissaBits == 53

\* zero bits appended to a dividend, enough for the guard and sticky bits
DivExtraBits == 60

\* big naturals are handled in limbs of 24 bits, most significant limb first
LimbBits == 24

LimbBase == 16777216

Zeros(n) == SubSeq([k \in 1..Max(n, 1) |-> 0], 1, n)

\* the bits without their leading zeros
StripZeros(b) ==
    IF \A k \in 1..Len(b) : b[k] = 0 THEN <<>>
    ELSE LET first == CHOOSE k \in 1..Len(b) : b[k] = 1 /\ \A j \in 1..(k - 1) : b[j] = 0
         IN  SubSeq(b, first, Len(b))

RECURSIVE BitsVal(_)
\* the natural written by at most LimbBits bits
BitsVal(b) == IF b = <<>> THEN 0 ELSE 2 * BitsVal(SubSeq(b, 1, Len(b) - 1)) + b[Len(b)]

RECURSIVE Pow2(_)
Pow2(n) == IF n = 0 THEN 1 ELSE 2 * Pow2(n - 1)

\* the weight of each bit of a limb, most significant first
BitWeight == [k \in 1..LimbBits |-> Pow2(LimbBits - k)]

ToLimbs(b) ==
    LET n == (Len(b) + LimbBits - 1) \div LimbBits
        padded == Zeros(n * LimbBits - Len(b)) \o b
    IN  [j \in 1..n |-> BitsVal(SubSeq(padded, (j - 1) * LimbBits + 1, j * LimbBits))]

FromLimbs(limbs) ==
    IF limbs = <<>> THEN <<>>
    ELSE SubSeq([k \in 1..(Len(limbs) * LimbBits) |->
                    (limbs[((k - 1) \div LimbBits) + 1]
                         \div BitWeight[((k - 1) % LimbBits) + 1]) % 2],
                1, Len(limbs) * LimbBits)

RECURSIVE AddLimbs(_, _, _)
\* addition from the least significant (last) limb
AddLimbs(a, b, carry) ==
    IF a = <<>> /\ b = <<>> THEN (IF carry = 0 THEN <<>> ELSE <<carry>>)
    ELSE LET x == IF a = <<>> THEN 0 ELSE a[Len(a)]
             y == IF b = <<>> THEN 0 ELSE b[Len(b)]
             sum == x + y + carry
         IN  Append(AddLimbs(SubSeq(a, 1, Len(a) - 1), SubSeq(b, 1, Len(b) - 1),
                             sum \div LimbBase),
                    sum % LimbBase)

AddBits(a, b) == FromLimbs(AddLimbs(ToLimbs(a), ToLimbs(b), 0))

RECURSIVE MulLimbs(_, _, _)
\* multiplication by a small natural from the least significant limb
MulLimbs(a, k, carry) ==
    IF a = <<>> THEN (IF carry = 0 THEN <<>> ELSE <<carry>>)
    ELSE LET prod == a[Len(a)] * k + carry
         IN  Append(MulLimbs(SubSeq(a, 1, Len(a) - 1), k, prod \div LimbBase),
                    prod % LimbBase)

MulBits(m, k) == FromLimbs(MulLimbs(ToLimbs(m), k, 0))

RECURSIVE DivLimbs(_, _, _, _)
\* long division by a small positive integer from the most significant limb
DivLimbs(a, n, r, q) ==
    IF a = <<>> THEN [q |-> q, r |-> r]
    ELSE LET r2 == r * LimbBase + Head(a)
         IN  DivLimbs(Tail(a), n, r2 % n, Append(q, r2 \div n))

DivBits(b, n) ==
    LET d == DivLimbs(ToLimbs(b), n, 0, <<>>)
    IN  [q |-> FromLimbs(d.q), r |-> d.r]

\* a <= b for bit sequences read as naturals
BitsLeq(a, b) ==
    LET x == StripZeros(a)
        y == StripZeros(b)
    IN  IF Len(x) # Len(y) THEN Len(x) < Len(y)
        ELSE \/ x = y
             \/ \E k \in 1..Len(x) : x[k] < y[k] /\ \A j \in 1..(k - 1) : x[j] = y[j]

\* bits + 1, in as many bits, or one more when every bit is 1
Increment(b) ==
    IF \A k \in 1..Len(b) : b[k] = 1 THEN <<1>> \o Zeros(Len(b))
    ELSE LET z == CHOOSE k \in 1..Len(b) : b[k] = 0 /\ \A j \in (k + 1)..Len(b) : b[j] = 1
         IN  SubSeq(b, 1, z - 1) \o <<1>> \o Zeros(Len(b) - z)

\* round bits * 2^e to the nearest Number, ties to even
Round53(bits, e) ==
    LET b == StripZeros(bits)
    IN  IF b = <<>> THEN [m |-> <<>>, e |-> 0]
        ELSE IF Len(b) <= MantissaBits
             THEN [m |-> b \o Zeros(MantissaBits - Len(b)), e |-> e - (MantissaBits - Len(b))]
        ELSE LET keep == SubSeq(b, 1, MantissaBits)
                 rest == SubSeq(b, MantissaBits + 1, Len(b))
                 sticky == \E k \in 2..Len(rest) : rest[k] = 1
                 roundUp == rest[1] = 1 /\ (sticky \/ keep[MantissaBits] = 1)
                 r == IF roundUp THEN Increment(keep) ELSE keep
             IN  IF Len(r) > MantissaBits
                 THEN [m |-> SubSeq(r, 1, MantissaBits), e |-> e + Len(rest) + 1]
                 ELSE [m |-> r, e |-> e + Len(rest)]

\* the Number of a non-negative integer below 2^24
FromNat(k) == Round53(FromLimbs(<<k>>), 0)

\* x / n for a Number x and an integer n > 0
NumDiv(x, n) ==
    LET d == DivBits(x.m \o Zeros(DivExtraBits), n)
    IN  Round53(Append(d.q, IF d.r # 0 THEN 1 ELSE 0), x.e - DivExtraBits - 1)

\* x * k for a Number x and an integer k >= 0
NumMul(x, k) == Round53(MulBits(x.m, k), x.e)

\* x + y
NumAdd(x, y) ==
    LET e0 == Min(x.e, y.e)
    IN  IF x.m = <<>> THEN y
        ELSE IF y.m = <<>> THEN x
        ELSE Round53(AddBits(x.m \o Zeros(x.e - e0), y.m \o Zeros(y.e - e0)), e0)

\* x <= y
NumLeq(x, y) ==
    LET e0 == Min(x.e, y.e)
    IN  IF x.m = <<>> THEN TRUE
        ELSE IF y.m = <<>> THEN FALSE
        ELSE BitsLeq(x.m \o Zeros(x.e - e0), y.m \o Zeros(y.e - e0))

(***************************************************************************)
(* fileExtractor.ts: extractFileContent, extractAllFilesContent            *)
(*   files: the extensions of the submitted files, in submission order     *)
(*   fileIdx: the loop variable i; fileDetails: the results array          *)
(*   callPc: "loop" (at the loop head), "extracting" (awaiting the         *)
(*   extractor of files[i]), "resolved", "rejected"                        *)
(***************************************************************************)
Extensions == {"pdf", "docx", "doc", "txt", "ppt", "pptx", "xyz"}

FileWordCounts == {0, 60}

\* switch (extension) in extractFileContent
Extractor(ext) ==
    CASE ext = "pdf" -> "extractFromPDF"
      [] ext \in {"docx", "doc"} -> "extractFromDOCX"
      [] ext = "txt" -> "extractFromTXT"
      [] ext = "ppt" -> "extractFromPPTBinary"
      [] ext = "pptx" -> "extractFromPPTX"
      [] OTHER -> "unsupported"

RECURSIVE SeqsUpTo(_, _)
SeqsUpTo(S, n) ==
    IF n = 0 THEN {<<>>}
    ELSE LET shorter == SeqsUpTo(S, n - 1)
         IN  shorter \cup {Append(q, x) : q \in shorter, x \in S}

Unshift(rs, r) == <<r>> \o rs

\* results.push(result)
Push(rs, r) == Append(rs, r)

RECURSIVE Join(_, _)
\* Array.prototype.join over a list of sections
Join(parts, sep) ==
    IF parts = <<>> THEN <<>>
    ELSE IF Len(parts) = 1 THEN <<Head(parts)>>
    ELSE <<Head(parts), sep>> \o Join(Tail(parts), sep)

\* results.map(r => `=== ${r.filename} ===\n\n${r.text}`).join('\n\n---\n\n'):
\* a section is the marker with the file's name and the file's text
CombinedText(rs) ==
    Join([k \in 1..Len(rs) |-> [marker |-> rs[k].filename, words |-> rs[k].wordCount]],
         "---")

\* file.name of files[i]: the position in the selection and the extension
FileName(i) == <<i, files[i]>>

\* the progress reports of one extractFromPDF call that takes the OCR path
\* with a sample of `total` pages and leaves the loop after `batches` batches:
\* onProgress(0, ...), onProgress((done / total) * 100, ...) after each
\* batch, onProgress(100, 'Done')
PdfRun(total, batches) ==
    <<<<"literal", 0, 1>>>>
        \o [j \in 1..batches |-> <<"ratio", Min(j * OCR_BATCH_SIZE, total), total>>]
        \o <<<<"literal", 100, 1>>>>

\* the batches the loop of extractFromPDF runs over a sample of `total` pages
NumBatches(total) == (total + OCR_BATCH_SIZE - 1) \div OCR_BATCH_SIZE

\* every sequence of reports one extractFromPDF call can make: none when the
\* native text is returned or the document fails to load; otherwise the
\* loop ends after its last batch or, on the time budget, after an earlier one
PdfRuns ==
    {<<>>} \cup
    UNION {{PdfRun(Len(samplePageNumbers(n, OcrMaxPages)), b) :
                b \in 1..NumBatches(Len(samplePageNumbers(n, OcrMaxPages)))} :
           n \in 1..MaxPdfPages}

\* the first argument of an onProgress call of extractFromPDF as a Number
ProgressValue(p) ==
    IF p[1] = "literal" THEN FromNat(p[2])
    ELSE NumMul(NumDiv(FromNat(p[2]), p[3]), 100)

\* (i / files.length) * 100 + (progress / files.length)
OverallProgress(i, n, progress) ==
    NumAdd(NumMul(NumDiv(FromNat(i), n), 100), NumDiv(progress, n))

BatchInit ==
    /\ files \in SeqsUpTo(Extensions, MaxFiles)
    /\ fileIdx = 0
    /\ fileDetails = <<>>
    /\ callPc = "loop"
    /\ started = <<>>
    /\ pdfRun = <<>>
    /\ overallLog = <<>>

BatchIdle ==
    /\ files = <<>>
    /\ fileIdx = 0
    /\ fileDetails = <<>>
    /\ callPc = "idle"
    /\ started = <<>>
    /\ pdfRun = <<>>
    /\ overallLog = <<>>

\* extractFileContent(files[i], fileProgress): the switch reaches an
\* extractor, which is awaited; only extractFromPDF is given the callback
ExtractorCalled(run) ==
    /\ callPc = "loop"
    /\ fileIdx < Len(files)
    /\ Extractor(files[fileIdx + 1]) # "unsupported"
    /\ Extractor(files[fileIdx + 1]) # "extractFromPDF" => run = <<>>
    /\ callPc' = "extracting"
    /\ started' = Append(started, FileName(fileIdx + 1))
    /\ pdfRun' = run
    /\ UNCHANGED <<files, fileIdx, fileDetails, overallLog>>

\* extractFileContent(files[i]): default: throw new Error('Unsupported file
\* format'), rethrown by the catch; the await in extractAllFilesContent is in
\* no try block, so the call rejects
UnsupportedFormat ==
    /\ callPc = "loop"
    /\ fileIdx < Len(files)
    /\ Extractor(files[fileIdx + 1]) = "unsupported"
    /\ callPc' = "rejected"
    /\ started' = Append(started, FileName(fileIdx + 1))
    /\ UNCHANGED <<files, fileIdx, fileDetails, pdfRun, overallLog>>

\* extractFromPDF calls onProgress: fileProgress computes the overall
\* progress and passes it to the caller's callback
ProgressReported ==
    /\ callPc = "extracting"
    /\ pdfRun # <<>>
    /\ overallLog' = Append(overallLog,
                            OverallProgress(fileIdx, Len(files), ProgressValue(Head(pdfRun))))
    /\ pdfRun' = Tail(pdfRun)
    /\ UNCHANGED <<files, fileIdx, fileDetails, callPc, started>>

\* the extractor returned text: results.push({ text, filename, wordCount, ... })
ExtractorReturns(words) ==
    /\ callPc = "extracting"
    /\ pdfRun = <<>>
    /\ fileDetails' = Push(fileDetails, [filename |-> FileName(fileIdx + 1), wordCount |-> words])
    /\ fileIdx' = fileIdx + 1
    /\ callPc' = "loop"
    /\ UNCHANGED <<files, started, pdfRun, overallLog>>

\* the extractor threw: extractFileContent rethrows 'Failed to extract content
\* from ...' and extractAllFilesContent rejects
ExtractorThrows ==
    /\ callPc = "extracting"
    /\ pdfRun = <<>>
    /\ callPc' = "rejected"
    /\ UNCHANGED <<files, fileIdx, fileDetails, started, pdfRun, overallLog>>

\* the loop is over: return { combinedText, fileDetails, ... }
AllFilesReturned ==
    /\ callPc = "loop"
    /\ fileIdx >= Len(files)
    /\ callPc' = "resolved"
    /\ UNCHANGED <<files, fileIdx, fileDetails, started, pdfRun, overallLog>>

BatchFrame == UNCHANGED <<sampleVars, poolVars, streamVars, pdfVars, fileVars>>

BatchNext ==
    \/ (\E run \in PdfRuns : ExtractorCalled(run)) /\ BatchFrame
    \/ ProgressReported /\ BatchFrame
    \/ UnsupportedFormat /\ BatchFrame
    \/ (\E words \in FileWordCounts : ExtractorReturns(words)) /\ BatchFrame
    \/ ExtractorThrows /\ BatchFrame
    \/ AllFilesReturned /\ BatchFrame

(***************************************************************************)
(* The file-converter endpoint (src/unnamed/part_004) and the detector and *)
(* validator it calls (src/unnamed/part_019)                               *)
(*   upload: the file of the request: [present, stem, ext, bytes, size],   *)
(*   where the name is stem.ext, bytes are the leading bytes and size is   *)
(*   file.size                                                             *)
(***************************************************************************)
MAX_FILE_SIZE == 104857600

MIN_FILE_SIZE == 100

ZipSignature == <<80, 75, 3, 4>>

PdfSignature == <<37, 80, 68, 70>>

Ole2Signature == <<208, 207, 17, 224>>

\* leading bytes of the uploads: the three signatures, a text, a ZIP
\* signature cut short, an empty file
LeadingBytes == {ZipSignature, PdfSignature, Ole2Signature, <<72, 101, 108, 108>>, <<80, 75>>, <<>>}

Stems == {"notes", "ppt_notes"}

TypedExtensions == {"pdf", "PDF", "pptx", "ppt", "PPT", "docx", "txt", "zip"}

FileSizes == {0, 2, 4, MIN_FILE_SIZE - 1, MIN_FILE_SIZE, 5000,
              MAX_FILE_SIZE, MAX_FILE_SIZE + 1}

SupportedFormats == {"ppt", "pptx", "pdf", "docx", "txt"}

\* String.prototype.toLowerCase on the typed extensions
ToLowerCase(ext) ==
    CASE ext = "PDF" -> "pdf"
      [] ext = "PPT" -> "ppt"
      [] OTHER -> ext

\* magicStr.startsWith(signature): magicStr is the hex of the leading bytes
StartsWith(bytes, sig) == Len(bytes) >= Len(sig) /\ SubSeq(bytes, 1, Len(sig)) = sig

\* filename.includes('ppt'), case-sensitive, over stem.ext
IncludesPpt(stem, ext) == stem = "ppt_notes" \/ ext \in {"ppt", "pptx"}

\* magicStr.startsWith('25504446') || extension === 'pdf'
PdfBranch(bytes, extension) == StartsWith(bytes, PdfSignature) \/ extension = "pdf"

\* detectFileType: the chain of if / else if over the magic bytes
DetectedFormat(stem, ext, bytes) ==
    LET extension == ToLowerCase(ext)
    IN  IF StartsWith(bytes, ZipSignature)
        THEN IF extension = "pptx" \/ IncludesPpt(stem, ext) THEN "pptx"
             ELSE IF extension = "docx" THEN "docx"
             ELSE "unknown"
        ELSE IF PdfBranch(bytes, extension) THEN "pdf"
        ELSE IF StartsWith(bytes, Ole2Signature)
        THEN IF extension = "ppt" \/ IncludesPpt(stem, ext) THEN "ppt" ELSE "unknown"
        ELSE IF extension = "txt" THEN "txt"
        ELSE "unknown"

TooSmallStrict(size) == size <= MIN_FILE_SIZE

\* file.size < 100
TooSmall(size) == size < MIN_FILE_SIZE

\* validateFile: size ceiling, then format, then minimum size
ValidateFile(size, format) ==
    IF size > MAX_FILE_SIZE THEN [valid |-> FALSE, error |-> "too large"]
    ELSE IF format \notin SupportedFormats THEN [valid |-> FALSE, error |-> "format not supported"]
    ELSE IF TooSmall(size) THEN [valid |-> FALSE, error |-> "too small"]
    ELSE [valid |-> TRUE, error |-> "none"]

\* getConversionInstructions: instructions[format] || instructions.unknown
ConversionInstructions(format) ==
    IF format \in {"ppt", "pptx", "pdf"} THEN format ELSE "unknown"

NoResponse == [code |-> 0, success |-> FALSE, status |-> "none", error |-> "none",
               instructions |-> "none"]

NoValidation == [valid |-> FALSE, error |-> "unset"]

GateInit ==
    /\ upload \in [present : BOOLEAN, stem : Stems, ext : TypedExtensions,
                   bytes : LeadingBytes, size : FileSizes]
    /\ \/ Len(upload.bytes) = Min(upload.size, 4)
       \/ upload.bytes = <<80, 75>> /\ upload.size = 2
    /\ gatePc = "close"
    /\ detection = "unset"
    /\ validation = NoValidation
    /\ response = NoResponse

GateIdle ==
    /\ upload = [present |-> FALSE, stem |-> "notes", ext |-> "txt", bytes |-> <<>>, size |-> 0]
    /\ gatePc = "idle"
    /\ detection = "unset"
    /\ validation = NoValidation
    /\ response = NoResponse

\* bb.on('close'): if (!fileBuffer || !fileName) respond 400 'No file provided'
NoFileProvided ==
    /\ gatePc = "close"
    /\ ~upload.present
    /\ response' = [code |-> 400, success |-> FALSE, status |-> "none",
                    error |-> "No file provided", instructions |-> "none"]
    /\ gatePc' = "responded"
    /\ UNCHANGED <<upload, detection, validation>>

\* const detection = await detectFileType(file)
DetectFileType ==
    /\ gatePc = "close"
    /\ upload.present
    /\ detection' = DetectedFormat(upload.stem, upload.ext, upload.bytes)
    /\ gatePc' = "detected"
    /\ UNCHANGED <<upload, validation, response>>

\* const validation = validateFile(file, detection)
Validate ==
    /\ gatePc = "detected"
    /\ validation' = ValidateFile(upload.size, detection)
    /\ gatePc' = "validated"
    /\ UNCHANGED <<upload, detection, response>>

\* if (!validation.valid): 400 { success: false, detection, status: 'error',
\* error, instructions }
RespondError ==
    /\ gatePc = "validated"
    /\ ~validation.valid
    /\ response' = [code |-> 400, success |-> FALSE, status |-> "error",
                    error |-> validation.error,
                    instructions |-> ConversionInstructions(detection)]
    /\ gatePc' = "responded"
    /\ UNCHANGED <<upload, detection, validation>>

\* 200 { success: true, detection, status: 'ready', timestamp }
RespondReady ==
    /\ gatePc = "validated"
    /\ validation.valid
    /\ response' = [code |-> 200, success |-> TRUE, status |-> "ready",
                    error |-> "none", instructions |-> "none"]
    /\ gatePc' = "responded"
    /\ UNCHANGED <<upload, detection, validation>>

GateFrame == UNCHANGED <<sampleVars, poolVars, streamVars, pdfVars, batchVars,
                         pptVars, pptxVars, mathVars>>

GateNext ==
    \/ NoFileProvided /\ GateFrame
    \/ DetectFileType /\ GateFrame
    \/ Validate /\ GateFrame
    \/ RespondError /\ GateFrame
    \/ RespondReady /\ GateFrame

(***************************************************************************)
(* fileExtractor.ts: extractFromPPTBinary, isReadableText                  *)
(*   pptStream: the bytes of the "PowerPoint Document" stream;             *)
(*   pptOffset: the scan offset (0-based, as in the code);                 *)
(*   pptTexts: the accepted text blocks, each a sequence of char codes;    *)
(*   pptHalt: how the scan loop was left; decodeLog: for every             *)
(*   TextBytesAtom decoded, its payload and the text decoded from it       *)
(***************************************************************************)
TEXT_BYTES_ATOM == 4008

TEXT_CHARS_ATOM == 4000

CONTAINER_VERSION == 15

SANITY_CEILING == 10000000

HEADER_SIZE == 8

MaxRecords == 3

\* the bytes of a record header: recVer in the low nibble of byte 0, recType
\* in bytes 2-3 and recLen in bytes 4-7, little-endian
Header(recVer, recType, recLen) ==
    <<recVer, 0, recType % 256, recType \div 256,
      recLen % 256, (recLen \div 256) % 256, (recLen \div 65536) % 256,
      recLen \div 16777216>>

HelloWorldPayload == <<72, 101, 108, 108, 111, 13, 87, 111, 114, 108, 100>>

\* payloads of the TextBytesAtom records of the streams: Hello<CR>World, "Hi",
\* "A B", one letter, text between a CR and a tab, text between control
\* bytes, bytes of 0x80..0x83 before one letter
TextBytesPayloads ==
    {HelloWorldPayload, <<72, 105>>, <<65, 32, 66>>, <<65>>, <<13, 72, 105, 9>>,
     <<1, 72, 105, 7>>, <<128, 129, 130, 131, 65>>}

\* the records the streams are made of: TextBytesAtom records, a TextCharsAtom
\* ("Hi" in UTF-16LE), a container, another atom, a TextBytesAtom of length
\* 0, a TextBytesAtom header that claims 50 bytes and one that claims more
\* than the ceiling
RecordChoices ==
    {Header(0, TEXT_BYTES_ATOM, Len(p)) \o p : p \in TextBytesPayloads} \cup
    {Header(0, TEXT_CHARS_ATOM, 4) \o <<72, 0, 105, 0>>,
     Header(CONTAINER_VERSION, 1000, 8),
     Header(0, 1000, 3) \o <<1, 2, 3>>,
     Header(0, TEXT_BYTES_ATOM, 0),
     Header(0, TEXT_BYTES_ATOM, 50) \o <<72, 105>>,
     Header(0, TEXT_BYTES_ATOM, SANITY_CEILING + 1)}

RECURSIVE Streams(_)
Streams(n) ==
    IF n = 0 THEN {<<>>}
    ELSE Streams(n - 1) \cup {s \o r : s \in Streams(n - 1) \ {<<>>}, r \in RecordChoices}
                        \cup RecordChoices

\* streamData[i]: a read past the end gives undefined, which is no number
ByteAt(stream, i) == IF i >= 0 /\ i < Len(stream) THEN stream[i + 1] ELSE -1

\* streamData[offset] & 0x0F
RecVer(stream, offset) == ByteAt(stream, offset) % 16

\* streamData[offset + 2] | (streamData[offset + 3] << 8)
RecType(stream, offset) == ByteAt(stream, offset + 2) + 256 * ByteAt(stream, offset + 3)

\* the four length bytes, little-endian, >>> 0 (the streams keep byte 7
\* below 128, so the value is below 2^31)
RecLen(stream, offset) ==
    ByteAt(stream, offset + 4) + 256 * ByteAt(stream, offset + 5)
        + 65536 * ByteAt(stream, offset + 6) + 16777216 * ByteAt(stream, offset + 7)

LengthOverCeilingOnly(recLen, remaining) == recLen > SANITY_CEILING

\* recLen > streamData.length - offset || recLen > 10_000_000
LengthIsCorrupt(recLen, remaining) == recLen > remaining \/ recLen > SANITY_CEILING

KeepsCharStrict(charCode) == charCode > 32 \/ charCode = 9

\* charCode >= 0x20 || charCode === 0x09
KeepsChar(charCode) == charCode >= 32 \/ charCode = 9

RECURSIVE DecodeBytes(_, _, _, _)
\* the loop over the recLen bytes of a TextBytesAtom, from byte i on
DecodeBytes(stream, offset, recLen, i) ==
    IF i >= recLen THEN <<>>
    ELSE LET charCode == ByteAt(stream, offset + i)
             rest == DecodeBytes(stream, offset, recLen, i + 1)
         IN  IF charCode = 13 THEN <<10>> \o rest
             ELSE IF KeepsChar(charCode) THEN <<charCode>> \o rest
             ELSE rest

RECURSIVE DecodeChars(_, _, _, _)
\* the loop over the UTF-16LE code units of a TextCharsAtom, from byte i on
DecodeChars(stream, offset, recLen, i) ==
    IF i + 1 >= recLen THEN <<>>
    ELSE LET lo == ByteAt(stream, offset + i)
             hi == ByteAt(stream, offset + i + 1)
             charCode == IF lo < 0 \/ hi < 0 THEN -1 ELSE lo + 256 * hi
             rest == DecodeChars(stream, offset, recLen, i + 2)
         IN  IF charCode = 13 THEN <<10>> \o rest
             ELSE IF KeepsChar(charCode) THEN <<charCode>> \o rest
             ELSE rest

\* the white space String.prototype.trim removes, among the codes below 256
WhiteSpace == {9, 10, 11, 12, 13, 32, 160}

RECURSIVE TrimStart(_)
TrimStart(t) == IF t # <<>> /\ Head(t) \in WhiteSpace THEN TrimStart(Tail(t)) ELSE t

RECURSIVE TrimEnd(_)
TrimEnd(t) ==
    IF t # <<>> /\ t[Len(t)] \in WhiteSpace THEN TrimEnd(SubSeq(t, 1, Len(t) - 1)) ELSE t

\* text.trim()
TrimText(t) == TrimEnd(TrimStart(t))

\* the character codes isReadableText counts as printable
IsPrintable(code) ==
    \/ code >= 32 /\ code <= 126
    \/ code \in {10, 13, 9}
    \/ code >= 160 /\ code <= 65535

\* isReadableText: at least 80% of the characters are printable
IsReadableText(t) ==
    /\ Len(t) # 0
    /\ 10 * Cardinality({k \in 1..Len(t) : IsPrintable(t[k])}) >= 8 * Len(t)

\* if (trimmed.length > 1 && isReadableText(trimmed)) texts.push(trimmed)
AcceptBlock(texts, text) ==
    LET trimmed == TrimText(text)
    IN  IF Len(trimmed) > 1 /\ IsReadableText(trimmed) THEN Append(texts, trimmed) ELSE texts

SkipAlways(offset, recVer, recLen) == offset + recLen

\* if (recVer !== 0x0F) offset += recLen
SkipPayload(offset, recVer, recLen) ==
    IF recVer # CONTAINER_VERSION THEN offset + recLen ELSE offset

NoPptResult == [kind |-> "none", blocks |-> <<>>]

PptInit ==
    /\ pptStream \in Streams(MaxRecords)
    /\ pptPc = "open"
    /\ pptOffset = 0
    /\ pptTexts = <<>>
    /\ pptHalt = "none"
    /\ decodeLog = <<>>
    /\ pptResult = NoPptResult

PptIdle ==
    /\ pptStream = <<>>
    /\ pptPc = "idle"
    /\ pptOffset = 0
    /\ pptTexts = <<>>
    /\ pptHalt = "none"
    /\ decodeLog = <<>>
    /\ pptResult = NoPptResult

\* CFB.read throws: 'Could not parse ... may be corrupted or not a valid
\* PowerPoint file'
ContainerUnreadable ==
    /\ pptPc = "open"
    /\ pptResult' = [kind |-> "error: could not parse", blocks |-> <<>>]
    /\ pptPc' = "thrown"
    /\ UNCHANGED <<pptStream, pptOffset, pptTexts, pptHalt, decodeLog>>

\* CFB.find gives no entry or no content: 'Could not find presentation data'
StreamMissing ==
    /\ pptPc = "open"
    /\ pptResult' = [kind |-> "error: no presentation data", blocks |-> <<>>]
    /\ pptPc' = "thrown"
    /\ UNCHANGED <<pptStream, pptOffset, pptTexts, pptHalt, decodeLog>>

\* the stream is found: texts = [], offset = 0
StreamFound ==
    /\ pptPc = "open"
    /\ pptPc' = "scan"
    /\ UNCHANGED <<pptStream, pptOffset, pptTexts, pptHalt, decodeLog, pptResult>>

\* a header is read (offset += 8) and its length passes the sanity check
HeaderAccepted ==
    /\ pptPc = "scan"
    /\ pptOffset + HEADER_SIZE <= Len(pptStream)
    /\ ~LengthIsCorrupt(RecLen(pptStream, pptOffset),
                        Len(pptStream) - (pptOffset + HEADER_SIZE))

\* one turn of the loop over a TextBytesAtom with recLen > 0
ScanTextBytes ==
    /\ HeaderAccepted
    /\ RecType(pptStream, pptOffset) = TEXT_BYTES_ATOM
    /\ RecLen(pptStream, pptOffset) > 0
    /\ LET recLen == RecLen(pptStream, pptOffset)
           text == DecodeBytes(pptStream, pptOffset + HEADER_SIZE, recLen, 0)
       IN  /\ pptTexts' = AcceptBlock(pptTexts, text)
           /\ decodeLog' = Append(decodeLog,
                  [payload |-> SubSeq(pptStream, pptOffset + HEADER_SIZE + 1,
                                      pptOffset + HEADER_SIZE + recLen),
                   text |-> text])
           /\ pptOffset' = SkipPayload(pptOffset + HEADER_SIZE,
                                       RecVer(pptStream, pptOffset), recLen)
    /\ UNCHANGED <<pptStream, pptPc, pptHalt, pptResult>>

\* one turn of the loop over a TextCharsAtom with recLen > 1
ScanTextChars ==
    /\ HeaderAccepted
    /\ RecType(pptStream, pptOffset) = TEXT_CHARS_ATOM
    /\ RecLen(pptStream, pptOffset) > 1
    /\ LET recLen == RecLen(pptStream, pptOffset)
           text == DecodeChars(pptStream, pptOffset + HEADER_SIZE, recLen, 0)
       IN  /\ pptTexts' = AcceptBlock(pptTexts, text)
           /\ pptOffset' = SkipPayload(pptOffset + HEADER_SIZE,
                                       RecVer(pptStream, pptOffset), recLen)
    /\ UNCHANGED <<pptStream, pptPc, pptHalt, decodeLog, pptResult>>

\* one turn of the loop over any other record: a container is entered, an
\* atom is skipped
ScanOtherRecord ==
    /\ HeaderAccepted
    /\ ~(RecType(pptStream, pptOffset) = TEXT_BYTES_ATOM /\ RecLen(pptStream, pptOffset) > 0)
    /\ ~(RecType(pptStream, pptOffset) = TEXT_CHARS_ATOM /\ RecLen(pptStream, pptOffset) > 1)
    /\ pptOffset' = SkipPayload(pptOffset + HEADER_SIZE, RecVer(pptStream, pptOffset),
                                RecLen(pptStream, pptOffset))
    /\ UNCHANGED <<pptStream, pptPc, pptTexts, pptHalt, decodeLog, pptResult>>

\* the sanity check fails: offset += 8; break
CorruptLengthHalts ==
    /\ pptPc = "scan"
    /\ pptOffset + HEADER_SIZE <= Len(pptStream)
    /\ LengthIsCorrupt(RecLen(pptStream, pptOffset),
                       Len(pptStream) - (pptOffset + HEADER_SIZE))
    /\ pptOffset' = pptOffset + HEADER_SIZE
    /\ pptHalt' = "corrupt"
    /\ pptPc' = "after"
    /\ UNCHANGED <<pptStream, pptTexts, decodeLog, pptResult>>

\* the loop condition offset + 8 <= streamData.length is false
StreamExhausted ==
    /\ pptPc = "scan"
    /\ pptOffset + HEADER_SIZE > Len(pptStream)
    /\ pptHalt' = "exhausted"
    /\ pptPc' = "after"
    /\ UNCHANGED <<pptStream, pptOffset, pptTexts, decodeLog, pptResult>>

\* if (texts.length === 0) throw new Error('No readable text found ... Try
\* exporting to PDF or PPTX from PowerPoint.')
ThrowNoReadableText ==
    /\ pptPc = "after"
    /\ Len(pptTexts) = 0
    /\ pptResult' = [kind |-> "error: no readable text, try exporting", blocks |-> <<>>]
    /\ pptPc' = "thrown"
    /\ UNCHANGED <<pptStream, pptOffset, pptTexts, pptHalt, decodeLog>>

\* return texts.join('\n\n')
ReturnTexts ==
    /\ pptPc = "after"
    /\ Len(pptTexts) # 0
    /\ pptResult' = [kind |-> "text", blocks |-> pptTexts]
    /\ pptPc' = "returned"
    /\ UNCHANGED <<pptStream, pptOffset, pptTexts, pptHalt, decodeLog>>

PptFrame == UNCHANGED <<sampleVars, poolVars, streamVars, pdfVars, batchVars,
                        gateVars, pptxVars, mathVars>>

PptNext ==
    \/ ContainerUnreadable /\ PptFrame
    \/ StreamMissing /\ PptFrame
    \/ StreamFound /\ PptFrame
    \/ ScanTextBytes /\ PptFrame
    \/ ScanTextChars /\ PptFrame
    \/ ScanOtherRecord /\ PptFrame
    \/ CorruptLengthHalts /\ PptFrame
    \/ StreamExhausted /\ PptFrame
    \/ ThrowNoReadableText /\ PptFrame
    \/ ReturnTexts /\ PptFrame

(***************************************************************************)
(* fileExtractor.ts: extractFromPPTX                                       *)
(*   zipEntries: the entries of the archive in ZIP order, each             *)
(*   [kind, digits, hasText]: ppt/slides/slide<digits>.xml,                *)
(*   ppt/notesSlides/notesSlide<digits>.xml or another entry, and whether  *)
(*   its <a:t> runs hold text that is not blank;                           *)
(*   slideFiles, notesFiles: the lists the loops run over; slideTexts: the *)
(*   blocks pushed so far, each [label, digits]                            *)
(***************************************************************************)
MaxZipEntries == 3

SlideDigits == {<<1>>, <<2>>, <<1, 0>>, <<0, 2>>}

EntryChoices ==
    [kind : {"slide"}, digits : SlideDigits, hasText : BOOLEAN] \cup
    [kind : {"note"}, digits : {<<1>>, <<2>>}, hasText : BOOLEAN] \cup
    [kind : {"other"}, digits : {<<>>}, hasText : {FALSE}]

\* the name of an entry: two entries of an archive never share it
EntryName(entry) == <<entry.kind, entry.digits>>

\* the archives: sequences of entries with distinct names
Archives ==
    {a \in SeqsUpTo(EntryChoices, MaxZipEntries) :
        \A i, j \in 1..Len(a) : i # j => EntryName(a[i]) # EntryName(a[j])}

RECURSIVE ParseInt(_)
\* parseInt over a string of decimal digits
ParseInt(digits) ==
    IF digits = <<>> THEN 0
    ELSE 10 * ParseInt(SubSeq(digits, 1, Len(digits) - 1)) + digits[Len(digits)]

RECURSIVE CompareLexical(_, _)
\* the default order of Array.prototype.sort: by the characters of the names;
\* after the digits comes '.', which sorts before every digit
CompareLexical(a, b) ==
    IF a = <<>> /\ b = <<>> THEN 0
    ELSE IF a = <<>> THEN -1
    ELSE IF b = <<>> THEN 1
    ELSE IF Head(a) # Head(b) THEN Head(a) - Head(b)
    ELSE CompareLexical(Tail(a), Tail(b))

\* the comparator of the sort: numA - numB
CompareSlides(a, b) == ParseInt(a) - ParseInt(b)

RECURSIVE InsertSlide(_, _)
\* insertion behind the entries that do not compare greater (a stable sort)
InsertSlide(sorted, entry) ==
    IF sorted = <<>> THEN <<entry>>
    ELSE IF CompareSlides(Head(sorted).digits, entry.digits) > 0 THEN <<entry>> \o sorted
    ELSE <<Head(sorted)>> \o InsertSlide(Tail(sorted), entry)

RECURSIVE SortSlides(_, _)
\* Array.prototype.sort with the comparator
SortSlides(acc, entries) ==
    IF entries = <<>> THEN acc
    ELSE SortSlides(InsertSlide(acc, Head(entries)), Tail(entries))

\* Object.keys(zip.files).filter(name => name.match(pattern))
EntriesOfKind(entries, kind) == SelectSeq(entries, LAMBDA e : e.kind = kind)

NoPptxResult == [kind |-> "none", blocks |-> <<>>]

PptxInit ==
    /\ zipEntries \in Archives
    /\ pptxPc = "load"
    /\ slideFiles = <<>>
    /\ notesFiles = <<>>
    /\ slideTexts = <<>>
    /\ pptxResult = NoPptxResult

PptxIdle ==
    /\ zipEntries = <<>>
    /\ pptxPc = "idle"
    /\ slideFiles = <<>>
    /\ notesFiles = <<>>
    /\ slideTexts = <<>>
    /\ pptxResult = NoPptxResult

\* JSZip.loadAsync resolved: slideFiles = the slide entries, sorted
ZipLoaded ==
    /\ pptxPc = "load"
    /\ slideFiles' = SortSlides(<<>>, EntriesOfKind(zipEntries, "slide"))
    /\ pptxPc' = "slides"
    /\ UNCHANGED <<zipEntries, notesFiles, slideTexts, pptxResult>>

\* one turn of the loop over slideFiles: the slide is pushed as
\* `[Slide n]\n text` when its text is not blank
SlideRead ==
    /\ pptxPc = "slides"
    /\ slideFiles # <<>>
    /\ slideTexts' = IF Head(slideFiles).hasText
                     THEN Append(slideTexts, [label |-> "Slide", digits |-> Head(slideFiles).digits])
                     ELSE slideTexts
    /\ slideFiles' = Tail(slideFiles)
    /\ UNCHANGED <<zipEntries, pptxPc, notesFiles, pptxResult>>

\* the loop over slideFiles is over: notesFiles = the notes entries
SlidesDone ==
    /\ pptxPc = "slides"
    /\ slideFiles = <<>>
    /\ notesFiles' = EntriesOfKind(zipEntries, "note")
    /\ pptxPc' = "notes"
    /\ UNCHANGED <<zipEntries, slideFiles, slideTexts, pptxResult>>

\* one turn of the loop over notesFiles
NoteRead ==
    /\ pptxPc = "notes"
    /\ notesFiles # <<>>
    /\ slideTexts' = IF Head(notesFiles).hasText
                     THEN Append(slideTexts, [label |-> "Notes", digits |-> Head(notesFiles).digits])
                     ELSE slideTexts
    /\ notesFiles' = Tail(notesFiles)
    /\ UNCHANGED <<zipEntries, pptxPc, slideFiles, pptxResult>>

\* if (slideTexts.length > 0) return slideTexts.join('\n\n')
ReturnSlideTexts ==
    /\ pptxPc = "notes"
    /\ notesFiles = <<>>
    /\ Len(slideTexts) > 0
    /\ pptxResult' = [kind |-> "text", blocks |-> slideTexts]
    /\ pptxPc' = "returned"
    /\ UNCHANGED <<zipEntries, slideFiles, notesFiles, slideTexts>>

\* return `[No extractable text found in ... The presentation may contain
\* only images.]`
ReturnPlaceholder ==
    /\ pptxPc = "notes"
    /\ notesFiles = <<>>
    /\ Len(slideTexts) = 0
    /\ pptxResult' = [kind |-> "placeholder", blocks |-> <<>>]
    /\ pptxPc' = "returned"
    /\ UNCHANGED <<zipEntries, slideFiles, notesFiles, slideTexts>>

\* JSZip.loadAsync or the read of an entry rejects: the catch tries mammoth
ZipFails ==
    /\ \/ pptxPc = "load"
       \/ pptxPc = "slides" /\ slideFiles # <<>>
       \/ pptxPc = "notes" /\ notesFiles # <<>>
    /\ pptxPc' = "fallback"
    /\ UNCHANGED <<zipEntries, slideFiles, notesFiles, slideTexts, pptxResult>>

\* mammoth.extractRawText gave text that is not blank: return result.value
FallbackReturns ==
    /\ pptxPc = "fallback"
    /\ pptxResult' = [kind |-> "fallback text", blocks |-> <<>>]
    /\ pptxPc' = "returned"
    /\ UNCHANGED <<zipEntries, slideFiles, notesFiles, slideTexts>>

\* mammoth threw or gave blank text: throw 'Failed to extract text from ...
\* Try exporting as PDF or DOCX.'
FallbackThrows ==
    /\ pptxPc = "fallback"
    /\ pptxResult' = [kind |-> "error: failed to extract, try exporting", blocks |-> <<>>]
    /\ pptxPc' = "thrown"
    /\ UNCHANGED <<zipEntries, slideFiles, notesFiles, slideTexts>>

PptxFrame == UNCHANGED <<sampleVars, poolVars, streamVars, pdfVars, batchVars,
                         gateVars, pptVars, mathVars>>

PptxNext ==
    \/ ZipLoaded /\ PptxFrame
    \/ SlideRead /\ PptxFrame
    \/ SlidesDone /\ PptxFrame
    \/ NoteRead /\ PptxFrame
    \/ ReturnSlideTexts /\ PptxFrame
    \/ ReturnPlaceholder /\ PptxFrame
    \/ ZipFails /\ PptxFrame
    \/ FallbackReturns /\ PptxFrame
    \/ FallbackThrows /\ PptxFrame

(***************************************************************************)
(* fileExtractor.ts: mathPatterns, detectMathContent                       *)
(*   The eight patterns are module-level RegExp objects with the g flag,   *)
(*   so RegExp.prototype.test starts at the lastIndex of the object and    *)
(*   leaves it behind the match, or at 0 when nothing matched.             *)
(*   lastIndex: the lastIndex of each pattern; mathLog: for every file     *)
(*   processed, its extracted text and the hasMathContent computed for it. *)
(*   A text is a sequence over "a", "$" and "forall" (the character        *)
(*   U+2200); patterns 3 to 7 need a backslash, a digit, a function name,  *)
(*   a Greek or operator symbol, "^" or "/" to match and so never match    *)
(*   these texts.                                                          *)
(***************************************************************************)
MaxMathCalls == 3

NumPatterns == 8

TextChars == {"a", "$", "forall"}

LogicSymbols == {"forall"}

\* the extracted texts of the files: no match, a logic symbol at index 0, 1 or
\* both, $a$, $$a$$, and an unclosed $
Texts ==
    {<<>>, <<"a">>, <<"forall">>, <<"a", "forall">>, <<"forall", "a">>,
     <<"forall", "forall">>, <<"$", "a", "$">>, <<"$", "$", "a", "$", "$">>,
     <<"a", "$">>}

\* the 0-based index of the first "$" of text at or after index i, or
\* Len(text) when there is none
NextDollar(text, i) ==
    IF \E k \in i..(Len(text) - 1) : text[k + 1] = "$"
    THEN CHOOSE k \in i..(Len(text) - 1) :
            /\ text[k + 1] = "$"
            /\ \A j \in i..(k - 1) : text[j + 1] # "$"
    ELSE Len(text)

\* /\$[^$]+\$/ matched at index i: the index behind the match, or -1
InlineLatexAt(text, i) ==
    LET close == NextDollar(text, i + 1)
    IN  IF i < Len(text) /\ text[i + 1] = "$" /\ close > i + 1 /\ close < Len(text)
        THEN close + 1
        ELSE -1

\* /\$\$[^$]+\$\$/ matched at index i: the index behind the match, or -1
BlockLatexAt(text, i) ==
    LET close == NextDollar(text, i + 2)
    IN  IF /\ i + 1 < Len(text) /\ text[i + 1] = "$" /\ text[i + 2] = "$"
           /\ close > i + 2 /\ close + 1 < Len(text) /\ text[close + 2] = "$"
        THEN close + 2
        ELSE -1

\* /[...logic symbols...]/ matched at index i: the index behind the match, or -1
LogicSymbolAt(text, i) ==
    IF i < Len(text) /\ text[i + 1] \in LogicSymbols THEN i + 1 ELSE -1

\* pattern j matched at index i: the index behind the match, or -1
MatchAt(j, text, i) ==
    CASE j = 1 -> InlineLatexAt(text, i)
      [] j = 2 -> BlockLatexAt(text, i)
      [] j = 8 -> LogicSymbolAt(text, i)
      [] OTHER -> -1

\* the search of pattern j from index `from`: the index behind the leftmost
\* match, or -1
Exec(j, text, from) ==
    IF \E i \in from..Len(text) : MatchAt(j, text, i) >= 0
    THEN MatchAt(j, text, CHOOSE i \in from..Len(text) :
                              /\ MatchAt(j, text, i) >= 0
                              /\ \A k \in from..(i - 1) : MatchAt(j, text, k) < 0)
    ELSE -1

\* pattern.test(text) of a global pattern whose lastIndex is `from`: the new
\* lastIndex when it matched, -1 when it did not
Test(j, text, from) == IF from > Len(text) THEN -1 ELSE Exec(j, text, from)

RECURSIVE Some(_, _, _)
\* mathPatterns.some(pattern => pattern.test(text)) from pattern j on, with
\* the lastIndex values li: the result and the lastIndex values left behind
Some(j, text, li) ==
    IF j > NumPatterns THEN [found |-> FALSE, lastIndex |-> li]
    ELSE LET end == Test(j, text, li[j])
         IN  IF end >= 0
             THEN [found |-> TRUE, lastIndex |-> [li EXCEPT ![j] = end]]
             ELSE Some(j + 1, text, [li EXCEPT ![j] = 0])

MathInit ==
    /\ lastIndex = [j \in 1..NumPatterns |-> 0]
    /\ mathLog = <<>>

MathIdle == MathInit

\* extractFileContent builds the ExtractedContent of a file whose extracted
\* text is `text`: hasMathContent: detectMathContent(text)
DetectMathContent(text) ==
    /\ Len(mathLog) < MaxMathCalls
    /\ LET outcome == Some(1, text, lastIndex)
       IN  /\ lastIndex' = outcome.lastIndex
           /\ mathLog' = Append(mathLog, [text |-> text, hasMathContent |-> outcome.found])

MathFrame == UNCHANGED <<sampleVars, poolVars, streamVars, pdfVars, batchVars,
                         gateVars, pptVars, pptxVars>>

MathNext ==
    \/ (\E text \in Texts : DetectMathContent(text)) /\ MathFrame

FilesIdle == GateIdle /\ PptIdle /\ PptxIdle /\ MathIdle

(***************************************************************************)
(* Specifications                                                          *)
(***************************************************************************)
InitSample == SampleInit /\ PoolCoreInit /\ CallersIdle /\ StreamIdle /\ PdfIdle /\ BatchIdle /\ FilesIdle

InitPool == SampleIdle /\ PoolInit /\ StreamIdle /\ PdfIdle /\ BatchIdle /\ FilesIdle

InitStream == SampleIdle /\ PoolCoreInit /\ CallersIdle /\ StreamInit /\ PdfIdle /\ BatchIdle /\ FilesIdle

InitPDF == SampleIdle /\ PoolCoreInit /\ CallersIdle /\ StreamIdle /\ PdfInit /\ BatchIdle /\ FilesIdle

InitBatch == SampleIdle /\ PoolCoreInit /\ CallersIdle /\ StreamIdle /\ PdfIdle /\ BatchInit /\ FilesIdle

SpecSample == InitSample /\ [][SampleCall]_vars

SpecPool == InitPool /\ [][PoolNext]_vars

SpecStream == InitStream /\ [][StreamNext]_vars

SpecPDF == InitPDF /\ [][PdfNext]_vars

InitDigital == SampleIdle /\ PoolCoreInit /\ CallersIdle /\ DigitalInit /\ PdfIdle /\ BatchIdle /\ FilesIdle

SpecDigital == InitDigital /\ [][DigitalNext]_vars

SpecBatch == InitBatch /\ [][BatchNext]_vars

InitGate ==
    /\ SampleIdle /\ PoolCoreInit /\ CallersIdle /\ StreamIdle /\ PdfIdle /\ BatchIdle
    /\ GateInit /\ PptIdle /\ PptxIdle /\ MathIdle

SpecGate == InitGate /\ [][GateNext]_vars

CoreIdle == SampleIdle /\ PoolCoreInit /\ CallersIdle /\ StreamIdle /\ PdfIdle /\ BatchIdle

InitPpt == CoreIdle /\ GateIdle /\ PptInit /\ PptxIdle /\ MathIdle

SpecPpt == InitPpt /\ [][PptNext]_vars

InitPptx == CoreIdle /\ GateIdle /\ PptIdle /\ PptxInit /\ MathIdle

SpecPptx == InitPptx /\ [][PptxNext]_vars

InitMath == CoreIdle /\ GateIdle /\ PptIdle /\ PptxIdle /\ MathInit

SpecMath == InitMath /\ [][MathNext]_vars

(***************************************************************************)
(* Claims about samplePageNumbers (SpecSample)                             *)
(***************************************************************************)
SampleReturned == spPc = "returned"

\* C2: for every page count N > 8, samplePageNumbers(N, 8) returns exactly 8
\* page numbers
C2_ExactlyEightPages ==
    (SampleReturned /\ spTotalPages > OcrMaxPages) => Len(spPages) = OcrMaxPages

\* C3: for every page count N > 8 the returned list is strictly ascending, has
\* no duplicate, holds only page numbers in 1..N and holds 1, 2, 3, N-1 and N
C3_SampleWellFormed ==
    (SampleReturned /\ spTotalPages > OcrMaxPages) =>
        /\ StrictlyAscending(spPages)
        /\ Cardinality(Range(spPages)) = Len(spPages)
        /\ Range(spPages) \subseteq 1..spTotalPages
        /\ {1, 2, 3, spTotalPages - 1, spTotalPages} \subseteq Range(spPages)

C3_Witness ==
    /\ SampleReturned
    /\ spTotalPages = 12
    /\ 6 \in Range(spPages)
    /\ 9 \in Range(spPages)

\* C4: for every page count N with 1 <= N <= 8 the returned list is exactly
\* 1..N in ascending order
C4_SmallDocumentAllPages ==
    (SampleReturned /\ spTotalPages <= OcrMaxPages) =>
        /\ Len(spPages) = spTotalPages
        /\ \A i \in 1..spTotalPages : spPages[i] = i

C4_Witness ==
    /\ SampleReturned
    /\ spTotalPages = OcrMaxPages
    /\ Len(spPages) = OcrMaxPages

(***************************************************************************)
(* Claims about the OCR pool (SpecPool)                                    *)
(***************************************************************************)
Awaiting == {c \in Callers : callerPc[c] = "awaiting"}

\* C9: the pool is initialised once: createWorker is called WORKER_COUNT times
\* in total once an initialisation has started and never again, a caller that
\* arrives while the initialisation is in flight starts no other one, and
\* once initialised the pool keeps the same WORKER_COUNT workers
C9_InitialisedOnce ==
    /\ [](/\ created \in {0, WORKER_COUNT}
          /\ (initialized \/ initPromise # "null") => created = WORKER_COUNT
          /\ initialized => Len(workers) = WORKER_COUNT
          /\ initialized => Cardinality(Range(workers)) = WORKER_COUNT)
    /\ [][initPromise = "pending" => created' = created]_vars
    /\ [][initialized => (initialized' /\ workers' = workers /\ created' = created)]_vars

C9_Witness ==
    /\ initialized
    /\ created = WORKER_COUNT
    /\ \E k \in 1..Len(acquireLog) : acquireLog[k].waited
    /\ \E c \in Callers : callerKind[c] = "init" /\ callerPc[c] = "returned"
    /\ Cardinality(Awaiting) >= 2

\* C10: the k-th completed acquisition (from 0) was handed cursor value k and
\* the worker at index k mod WORKER_COUNT, the cursor is the number of
\* completed acquisitions, and the cursor never decreases
C10_RoundRobin ==
    /\ [](/\ rrIndex = Len(acquireLog)
          /\ \A k \in 1..Len(acquireLog) :
                /\ acquireLog[k].cursor = k - 1
                /\ initialized
                /\ acquireLog[k].worker = workers[((k - 1) % WORKER_COUNT) + 1])
    /\ [][rrIndex' >= rrIndex]_vars

C10_Witness ==
    /\ Len(acquireLog) >= WORKER_COUNT + 1
    /\ Cardinality({k \in 1..Len(acquireLog) : acquireLog[k].waited}) >= 2

(***************************************************************************)
(* Claims about extractAllFilesContent (SpecBatch)                         *)
(***************************************************************************)
\* C1: a file whose extraction fails does not abort the batch: the call
\* resolves, and every file of the batch has been processed by then
C1_FailureDoesNotAbortBatch ==
    callPc \in {"resolved", "rejected"} =>
        /\ callPc = "resolved"
        /\ fileIdx = Len(files)

C12_ProgressMonotone ==
    /\ \A k \in 1..Len(overallLog) :
          NumLeq(FromNat(0), overallLog[k]) /\ NumLeq(overallLog[k], FromNat(100))
    /\ \A k \in 1..(Len(overallLog) - 1) : NumLeq(overallLog[k], overallLog[k + 1])

(***************************************************************************)
(* Claims about the file-converter endpoint (SpecGate)                     *)
(***************************************************************************)
\* C13: a provided file is accepted if and only if its size is within
\* 100 bytes .. 100 MB inclusive and its detected format is one of pdf, docx,
\* pptx, ppt, txt; the endpoint answers success with status 'ready' exactly
\* for the accepted files, and status 'error' with an error message and
\* conversion instructions for every other file
C13_AcceptanceGate ==
    (gatePc = "responded" /\ upload.present) =>
        LET accepted == /\ upload.size >= 100
                        /\ upload.size <= 100 * 1024 * 1024
                        /\ detection \in {"pdf", "docx", "pptx", "ppt", "txt"}
        IN  /\ validation.valid <=> accepted
            /\ accepted => /\ response.success
                           /\ response.status = "ready"
                           /\ response.code = 200
            /\ ~accepted => /\ ~response.success
                            /\ response.status = "error"
                            /\ response.error \notin {"none", "unset"}
                            /\ response.instructions # "none"

C13_Witness ==
    /\ gatePc = "responded"
    /\ upload.present
    /\ upload.size = 100
    /\ detection = "ppt"
    /\ response.status = "ready"

\* the extractor of fileExtractor.ts that handles a detected format
ExtractorOfFormat(format) ==
    CASE format = "pdf" -> "extractFromPDF"
      [] format = "docx" -> "extractFromDOCX"
      [] format = "txt" -> "extractFromTXT"
      [] format = "ppt" -> "extractFromPPTBinary"
      [] format = "pptx" -> "extractFromPPTX"
      [] OTHER -> "none"

\* C30: for every file that the validation gate accepts, extractFileContent,
\* which switches on the lowercased extension of the file name, dispatches to
\* the extractor of the format that detectFileType reported, and in
\* particular does not reject the file as an unsupported format.
C30_DispatchAgreesWithDetection ==
    (gatePc = "responded" /\ upload.present /\ response.code = 200) =>
        Extractor(ToLowerCase(upload.ext)) = ExtractorOfFormat(detection)

\* C19: a file whose leading bytes are %PDF, or whose extension is .pdf, is
\* detected as pdf, whatever the other of the two says
C19_PdfBySignatureOrExtension ==
    (gatePc \in {"detected", "validated", "responded"} /\ upload.present) =>
        ((StartsWith(upload.bytes, <<37, 80, 68, 70>>) \/ upload.ext \in {"pdf", "PDF"})
            => detection = "pdf")

(***************************************************************************)
(* Claims about extractFromPDF (SpecPDF)                                   *)
(***************************************************************************)
Elapsed == now - startTime

\* C5: with a native text layer of 50 words or more the native text is
\* returned and the OCR path is never entered: no page is sampled, rendered
\* or recognised, no engine is created, no progress is reported, and the
\* result has no [Page N] block and no note
C5_NativeTextSkipsOcr ==
    WordCount >= 50 =>
        /\ pdPc \in {"native", "done", "failed"}
        /\ pdPc = "done" => pdResult = NativeResult
        /\ pagesToOCR = <<>>
        /\ taskStage = <<>>
        /\ ~tesseractWorker
        /\ ~workerInitializing
        /\ progressLog = <<>>

C5_Witness ==
    /\ pdPc = "done"
    /\ WordCount = NATIVE_WORD_THRESHOLD
    /\ pdResult.kind = "native"

\* C6: a batch starts only while at most 7000 ms have elapsed since the OCR
\* phase began; a batch in flight is left only by all of its pages having
\* returned, whatever the clock says; and from the OCR phase the function
\* only goes on to return, with the blocks of the pages recovered so far
C6_BudgetGatesBatches ==
    /\ [][(pdPc = "check" /\ pdPc' = "batch") => Elapsed <= OCR_BUDGET_MS]_vars
    /\ [][(pdPc = "check" /\ Elapsed > OCR_BUDGET_MS) => pdPc' \in {"check", "done"}]_vars
    /\ [][pdPc = "batch" =>
            \/ pdPc' = "batch"
            \/ /\ pdPc' = "check"
               /\ \A j \in BatchTasks : taskStage[j] = "over"
               /\ Len(ocrResults') >= Len(ocrResults)]_vars
    /\ [][now' >= now]_vars
    /\ []((pdPc = "done" /\ pagesToOCR # <<>>) =>
            Range(pdResult.blocks) = {pagesToOCR[j] : j \in {k \in Tasks : taskRes[k] \notin {"unset", "null"}}})
    /\ [][(pdPc \in {"check", "batch"}) => (pdPc' \in {"check", "batch", "done"})]_vars

C6_Witness ==
    /\ pdPc = "done"
    /\ Elapsed > OCR_BUDGET_MS
    /\ batchI < Len(pagesToOCR)
    /\ Len(pdResult.blocks) >= 2
    /\ \E j \in Tasks : taskStage[j] = "idle"

\* C7: when at least one page was recovered, the result has one [Page N]
\* block for exactly each sampled page whose timed OCR call returned text that
\* is not blank, in strictly ascending page order, and the sampling note if and
\* only if fewer pages were sampled than the document has
C7_OcrResultShape ==
    (pdPc = "done" /\ \E j \in Tasks : taskRes[j] \notin {"unset", "null"}) =>
        /\ pdResult.kind = "ocr"
        /\ Range(pdResult.blocks) = {pagesToOCR[j] : j \in {k \in Tasks : taskRes[k] \notin {"unset", "null"}}}
        /\ StrictlyAscending(pdResult.blocks)
        /\ (pdResult.note # <<>>) <=> (Len(pagesToOCR) < pdNumPages)
        /\ pdResult.note # <<>> => pdResult.note = <<pdNumPages, Len(pagesToOCR)>>

C7_Witness ==
    /\ pdPc = "done"
    /\ pdNumPages > OcrMaxPages
    /\ pdResult.note # <<>>
    /\ Len(pdResult.blocks) >= 3
    /\ Len(pdResult.blocks) < Len(pagesToOCR)

C7_WitnessNoNote ==
    /\ pdPc = "done"
    /\ pdNumPages = OcrMaxPages
    /\ pdResult.kind = "ocr"
    /\ pdResult.note = <<>>

\* the tasks whose callback returned a page with text that is not blank
WithText == {j \in Tasks : taskRes[j] \notin {"unset", "null", "", " "}}

C28_CallsWithinPoolSize ==
    tesseractWorker => Cardinality({j \in Tasks : taskStage[j] = "ocr"}) <= 3

\* C29: whenever the budget stops the fallback before every sampled page was
\* processed and text was recovered, the returned text carries the note that
\* the content is incomplete, whatever the page count.
C29_BudgetStopIsAnnotated ==
    (pdPc = "done" /\ batchI < Len(pagesToOCR) /\ pdResult.kind = "ocr")
        => pdResult.note # <<>>

(***************************************************************************)
(* Claims about processPdfStream (SpecStream)                              *)
(***************************************************************************)
\* C8: the emitted page numbers are strictly ascending (so none is emitted
\* twice), every emitted page has a text that is not blank, and when the
\* generator returns the emitted pages are exactly the pages with such a text
C8_EmittedAscendingAndExact ==
    /\ StrictlyAscending(emitted)
    /\ Range(emitted) \subseteq textPages
    /\ stPc = "done" => Range(emitted) = textPages

C8_Witness ==
    /\ stPc = "done"
    /\ stNumPages >= 5
    /\ Len(emitted) >= 3
    /\ Len(emitted) < stNumPages

(***************************************************************************)
(* Claims about extractFromPPTBinary (SpecPpt)                             *)
(***************************************************************************)
\* the header at the scan offset claims more bytes than remain behind it, or
\* more than the sanity ceiling
CorruptHeaderAtOffset ==
    /\ pptPc = "scan"
    /\ pptOffset + HEADER_SIZE <= Len(pptStream)
    /\ \/ RecLen(pptStream, pptOffset) > Len(pptStream) - (pptOffset + HEADER_SIZE)
       \/ RecLen(pptStream, pptOffset) > SANITY_CEILING

\* C14, as stated: a scan that halted at a header with a corrupt recLen raises
\* no exception and returns the text blocks accepted before that record.
C14_CorruptHaltReturnsAccepted ==
    (pptHalt = "corrupt" /\ pptPc \in {"returned", "thrown"})
        => (pptPc = "returned" /\ pptResult.blocks = pptTexts)

\* C14, amended: at a header with a corrupt recLen the scan halts at that
\* record, with no recovery attempt and no exception raised by the halt, the
\* accepted blocks untouched; then the function returns the blocks accepted
\* before that record when there is at least one, and fails with the
\* no-readable-text error when there is none.
C14_CorruptHaltThenReturnOrFail ==
    [][/\ CorruptHeaderAtOffset
            => /\ pptPc' = "after"
               /\ pptHalt' = "corrupt"
               /\ pptTexts' = pptTexts
               /\ pptResult' = NoPptResult
       /\ (pptPc = "after" /\ pptHalt = "corrupt")
            => IF Len(pptTexts) > 0
               THEN pptPc' = "returned" /\ pptResult' = [kind |-> "text", blocks |-> pptTexts]
               ELSE /\ pptPc' = "thrown"
                    /\ pptResult'.kind = "error: no readable text, try exporting"]_vars

\* a scan halted by a corrupt header after a block was accepted, and returned it
C14_Witness ==
    /\ pptHalt = "corrupt"
    /\ pptPc = "returned"
    /\ Len(pptResult.blocks) > 0
    /\ pptOffset < Len(pptStream)

C26_ScanStaysWithinStream ==
    /\ [](/\ pptOffset >= 0
          /\ pptOffset <= Len(pptStream)
          /\ pptPc \in {"open", "scan", "after"} => ENABLED PptNext)
    /\ [][(pptPc = "scan" /\ pptPc' = "scan")
            => /\ pptOffset' > pptOffset
               /\ pptOffset' = pptOffset + 8
                      + (IF RecVer(pptStream, pptOffset) = 15
                         THEN 0 ELSE RecLen(pptStream, pptOffset))
               /\ pptOffset + 8 + RecLen(pptStream, pptOffset) <= Len(pptStream)]_vars

\* a scan went through a container header, then decoded its child, up to the
\* end of the stream
C26_Witness ==
    /\ pptPc = "after"
    /\ pptHalt = "exhausted"
    /\ pptOffset = Len(pptStream)
    /\ Len(pptStream) > 16
    /\ RecVer(pptStream, 0) = 15
    /\ Len(decodeLog) > 0

(***************************************************************************)
(* Claims about extractFromPPTX (SpecPptx)                                 *)
(***************************************************************************)
\* the [Slide k] blocks of the returned text, in their order
SlideBlocks == SelectSeq(pptxResult.blocks, LAMBDA b : b.label = "Slide")

\* the slide entries of the archive are slides 1, 2 and 10, each with text
SlidesOneTwoTen ==
    /\ Len(zipEntries) = 3
    /\ {zipEntries[i] : i \in 1..3} =
          {[kind |-> "slide", digits |-> d, hasText |-> TRUE] : d \in {<<1>>, <<2>>, <<1, 0>>}}

\* C16: the [Slide k] blocks of the extracted text are in ascending numeric
\* slide index, one for every slide entry that holds text, whatever the order
\* of the entries in the ZIP; slides 1, 2, 10 come out as 1, 2, 10.
C16_SlidesInNumericOrder ==
    (pptxPc = "returned" /\ pptxResult.kind = "text")
        => /\ \A i, j \in 1..Len(SlideBlocks) :
                 i < j => ParseInt(SlideBlocks[i].digits) <= ParseInt(SlideBlocks[j].digits)
           /\ {SlideBlocks[i].digits : i \in 1..Len(SlideBlocks)} =
                 {zipEntries[i].digits : i \in {k \in 1..Len(zipEntries) :
                     zipEntries[k].kind = "slide" /\ zipEntries[k].hasText}}
           /\ SlidesOneTwoTen
                 => [i \in 1..3 |-> SlideBlocks[i].digits] = <<<<1>>, <<2>>, <<1, 0>>>>

\* slides 1, 2, 10 stored with slide 10 first and slide 1 last were returned
C16_Witness ==
    /\ pptxPc = "returned"
    /\ pptxResult.kind = "text"
    /\ SlidesOneTwoTen
    /\ zipEntries[1].digits = <<1, 0>>
    /\ zipEntries[3].digits = <<1>>

\* the [Notes k] blocks of the returned text, in their order
NotesBlocks == SelectSeq(pptxResult.blocks, LAMBDA b : b.label = "Notes")

\* C21: the [Notes k] blocks of the extracted text are in ascending numeric
\* notes index whatever the order of the notes entries in the ZIP.
C21_NotesInNumericOrder ==
    (pptxPc = "returned" /\ pptxResult.kind = "text")
        => \A i, j \in 1..Len(NotesBlocks) :
              i < j => ParseInt(NotesBlocks[i].digits) <= ParseInt(NotesBlocks[j].digits)

\* C22: when the archive opened and no slide and no note yielded text, the
\* generic raw-text converter is called before image-only content is
\* reported: the step that leaves the end of the notes loop with no block
\* pushed goes to the converter.
C22_ConverterBeforeImageOnly ==
    [][(pptxPc = "notes" /\ notesFiles = <<>> /\ Len(slideTexts) = 0 /\ pptxPc' # "notes")
          => pptxPc' = "fallback"]_vars

\* C20: a file that parses but yields no usable text ends in an error with
\* an export suggestion and never returns empty or placeholder text; for a
\* PPTX: the extraction returns from the archive only with at least one
\* slide or note block.
C20_NoTextIsAnError ==
    (pptxPc = "returned" /\ pptxResult.kind \in {"text", "placeholder"})
        => Len(pptxResult.blocks) > 0

(***************************************************************************)
(* Claims about detectMathContent (SpecMath)                               *)
(***************************************************************************)
\* C17: extraction is a deterministic function of its input, whatever was
\* processed in between; for hasMathContent: two files with the same
\* extracted text get the same hasMathContent.
C17_SameTextSameMathFlag ==
    \A i, j \in 1..Len(mathLog) :
        mathLog[i].text = mathLog[j].text
            => mathLog[i].hasMathContent = mathLog[j].hasMathContent

(***************************************************************************)
(* Claims about the pool under processPdfStream (SpecStream)               *)
(***************************************************************************)
\* C18: a failed pool initialisation is fatal to the run in flight: a page of
\* a processPdfStream run that waits on a pool whose initialisation was
\* rejected gets no page result; the step that ends its wait fails the run.
C18_PoolFailureIsFatal ==
    [][(\E p \in 1..stNumPages :
            /\ stStage[p] = "awaitPool"
            /\ initPromise = "rejected"
            /\ stStage'[p] # "awaitPool")
          => stPc' = "failed"]_vars

(***************************************************************************)
(* Claims about the waves of processPdfStream (SpecStream)                 *)
(***************************************************************************)
\* the pages whose page operation has started and has not resolved
InProcessing == {p \in 1..stNumPages : stStage[p] \notin {"idle", "done"}}

\* C24: processPdfStream works in waves of at most 3 pages: a page of the
\* current batch is emitted only when every page operation of the batch has
\* resolved; a page operation has started only for the 3 pages of the current
\* batch and only when every non-empty result of the earlier batches has been
\* emitted; at most 3 pages are in processing at any time.
C24_WavesOfThree ==
    /\ \A p \in Range(emitted) :
          p >= batchStart
            => \A q \in batchStart..Min(batchStart + 2, stNumPages) : stStage[q] = "done"
    /\ \A p \in 1..stNumPages :
          stStage[p] # "idle"
            => /\ p \in batchStart..(batchStart + 2)
               /\ \A q \in textPages : q < batchStart => q \in Range(emitted)
    /\ Cardinality(InProcessing) <= 3

\* the second batch has three pages in processing after pages of the first
\* batch were emitted
C24_Witness ==
    /\ stPc = "batch"
    /\ batchStart = 4
    /\ emitted # <<>>
    /\ Cardinality(InProcessing) = 3

\* the pages with a worker.recognize call in flight
Recognizing == {p \in 1..stNumPages : stStage[p] = "recognize"}

\* C27: with one processPdfStream run as the only user of the pool, no worker
\* has two recognition calls in flight: the pages with a recognition in flight
\* are pages of the current batch, at most 3, and hold pairwise distinct
\* workers of the pool.
C27_DistinctWorkersPerBatch ==
    /\ \A p, q \in Recognizing : p # q => stWorker[p] # stWorker[q]
    /\ \A p \in Recognizing :
          /\ p \in batchStart..(batchStart + 2)
          /\ stWorker[p] \in 1..created
    /\ Cardinality(Recognizing) <= 3

\* the three pages of the second batch have their recognitions in flight
C27_Witness ==
    /\ batchStart = 4
    /\ Cardinality(Recognizing) = 3
    /\ Cardinality({stWorker[p] : p \in Recognizing}) = 3

(***************************************************************************)
(* Claims about processPdfStream over long documents (SpecDigital)         *)
(***************************************************************************)
\* C23: processPdfStream pauses every 20 pages: while a batch lying entirely
\* beyond page 20k is in processing, at least k pauses have occurred.
C23_PauseEveryTwentyPages ==
    stPc = "batch" => pauses >= (batchStart - 1) \div 20

====
